---- MODULE Spec2Model ----
(***************************************************************************)
(* Model of the incremental synchronisation engine of the Trackmania map   *)
(* analyzer (src/main.py): fetch_and_process_data reads the map source     *)
(* list, pages through each map's leaderboard, reconciles the fetched rows *)
(* with the SQLite store (maps, players, records) and returns the session  *)
(* event log.                                                              *)
(*                                                                         *)
(* Encodings.  Python None / SQL NULL is a distinguished value per type:   *)
(* NoId for a player id (a missing or empty id, both falsy in the code),   *)
(* NoTime for a time, NoStamp for a game timestamp, NoClock for a script   *)
(* timestamp, NoUid for a map uid.  datetime.now() is the run counter      *)
(* current_fetch_time.  A URL is the sequence of its characters.           *)
(***************************************************************************)
EXTENDS Integers, Sequences, FiniteSets, TLC

VARIABLES
    db,                        \* the SQLite store as seen through conn (uncommitted writes included)
    committed,                 \* the store as of the last conn.commit()
    session_data,              \* the session event log of the run in progress
    returned,                  \* what the last call of fetch_and_process_data returned
    pc,                        \* "idle" | "entry" (head of the for loop) | "page" (head of the while loop)
    map_url_entries,           \* the parsed source list of the run
    idx,                       \* position of entry_data in map_url_entries
    current_fetch_time,        \* datetime.now() of the run: the run counter
    map_uid,                   \* uid of the map being fetched (the last one fetched, between maps)
    all_tops_for_map,          \* rows collected for map_uid
    current_offset,
    map_total_playercount_api,
    first_fetch_done,
    log,                       \* the call in order: its log_callback messages (page requests, errors, skips, completions) and its time.sleep pauses
    source,                    \* history: the source file as the last call found it
    served,                    \* history: the rows the API has served for map_uid
    reconciled,                \* history: per map, the leaderboard last reconciled and its run
    repeated,                  \* history: the last reconciliation repeated the map's leaderboard of an earlier run
    wr_changed,                \* history: the maps whose stored WR holder or WR time a reconciliation of this run changed
    call_rank,                 \* argument of a call of calculate_points_for_rank
    points,                    \* what that call returned, in hundredths of a point
    zone_data,                 \* argument of a call of get_actual_country_info
    country_info,              \* what that call returned: <<country_name, country_flag>>
    base_api_url_template,     \* the url_template of an entry whose page URL is built
    page_offset,               \* the current_offset of that page
    paginated_api_url,         \* the URL built for the page request (lines 162-190)
    player_rows,               \* the player ids as refresh_all_tabs read them from the store, in read order
    overall_lb_sorted_players_with_rank,  \* the global ranking of the last refresh_all_tabs
    refreshes                  \* the calls of refresh_all_tabs so far

vars == <<db, committed, session_data, returned, pc, map_url_entries, idx,
          current_fetch_time, map_uid, all_tops_for_map, current_offset,
          map_total_playercount_api, first_fetch_done, log,
          source, served, reconciled, repeated, wr_changed,
          call_rank, points, zone_data, country_info,
          base_api_url_template, page_offset, paginated_api_url,
          player_rows, overall_lb_sorted_players_with_rank, refreshes>>

\* the variables of the calls of the pure functions and of refresh_all_tabs
calls == <<call_rank, points, zone_data, country_info,
           base_api_url_template, page_offset, paginated_api_url,
           player_rows, overall_lb_sorted_players_with_rank, refreshes>>

\* the variables of refresh_all_tabs
rank_call == <<player_rows, overall_lb_sorted_players_with_rank, refreshes>>

\* the variables of the construction of a page URL
url_call == <<base_api_url_template, page_offset, paginated_api_url>>

-----------------------------------------------------------------------------
(* Bounds of the model *)

\* runs (calls of fetch_and_process_data that pass the source-list check) under Spec
MaxRuns == 2

\* runs under SpecRecon
MaxReconRuns == 3

\* lines of the map source file
MaxLines == 2

\* rows of a short page (a page of fewer than RECORDS_PER_PAGE rows)
MaxRows == 2

\* full pages the API serves for one map
MaxFullPages == 2

\* runs under SpecPages
MaxLongRuns == 1

\* rows of the long last page (250 rows = 100 + 100 + TailRows)
TailRows == 50

\* full pages served per map to an API that never runs out of rows: one past the
\* safety cap of 10,000 records
MaxCapPages == 101

\* query parameters of a url_template
MaxParams == 3

\* pages of a map whose URLs are built: page indexes 0..MaxPageIndex
MaxPageIndex == 2

\* the runs before the refresh under SpecRank
MaxRankRuns == 2

\* the calls of refresh_all_tabs in a behaviour
MaxRefreshes == 1

\* the longest zone chain resolved under SpecZones
MaxDepth == 5

\* the highest rank (and the lowest, negated) of a call under SpecPoints
MaxRank == 1100

(* Program constants *)

RECORDS_PER_PAGE == 100

SAFETY_CAP == 10000

-----------------------------------------------------------------------------
(* None / NULL *)

NoId == "-"

NoTime == -1

NoStamp == "-"

NoClock == 0

NoUid == <<>>

-----------------------------------------------------------------------------
(* Sequences *)

SeqsUpTo(S, n) == UNION {[1..k -> S] : k \in 0..n}

RECURSIVE Count(_, _)
Count(s, x) ==
    IF s = <<>> THEN 0
    ELSE (IF Head(s) = x THEN 1 ELSE 0) + Count(Tail(s), x)

-----------------------------------------------------------------------------
(* The map source file (MAP_URLS_FILE) and extract_map_uid_from_url *)

\* the characters of "/map/", the literal prefix of the pattern r'/map/([^?]+)'
MapPrefix == <<"/", "m", "a", "p", "/">>

\* positions where "/map/" is followed by at least one character other than "?"
MatchStarts(api_url) ==
    {i \in 1..Len(api_url) :
        /\ i + Len(MapPrefix) <= Len(api_url)
        /\ SubSeq(api_url, i, i + Len(MapPrefix) - 1) = MapPrefix
        /\ api_url[i + Len(MapPrefix)] # "?"}

\* re.search(r'/map/([^?]+)', api_url): the leftmost match, its group as long as possible
extract_map_uid_from_url(api_url) ==
    IF MatchStarts(api_url) = {} THEN NoUid
    ELSE LET i == CHOOSE k \in MatchStarts(api_url) :
                      \A j \in MatchStarts(api_url) : k <= j
             first == i + Len(MapPrefix)
             last == CHOOSE e \in first..Len(api_url) :
                         /\ \A j \in first..e : api_url[j] # "?"
                         /\ e = Len(api_url) \/ api_url[e + 1] = "?"
         IN  SubSeq(api_url, first, last)

\* "/map/A"
UrlA == <<"/", "m", "a", "p", "/", "A">>

\* "/map/B?k"
UrlB == <<"/", "m", "a", "p", "/", "B", "?", "k">>

\* "/map/?k": no character for the group, so no map uid
UrlX == <<"/", "m", "a", "p", "/", "?", "k">>

\* "offset=" and "length=", the parameter names of the patterns of lines 163-164
OffsetKey == <<"o", "f", "f", "s", "e", "t", "=">>

LengthKey == <<"l", "e", "n", "g", "t", "h", "=">>

\* the characters that \d matches
Digits == <<"0", "1", "2", "3", "4", "5", "6", "7", "8", "9">>

IsDigit(char) == \E d \in 1..Len(Digits) : Digits[d] = char

\* str(n) of an f-string, n >= 0
RECURSIVE Str(_)
Str(n) == IF n < 10 THEN <<Digits[n + 1]>> ELSE Str(n \div 10) \o <<Digits[(n % 10) + 1]>>

\* re.sub(r'[?&]key\d+', '', text): every match is cut out, from left to right, each
\* taking all the digits that follow the key
RECURSIVE re_sub(_, _)
re_sub(key, text) ==
    IF text = <<>> THEN <<>>
    ELSE IF /\ text[1] \in {"?", "&"}
            /\ Len(text) >= Len(key) + 2
            /\ SubSeq(text, 2, Len(key) + 1) = key
            /\ IsDigit(text[Len(key) + 2])
    THEN LET last == CHOOSE e \in (Len(key) + 2)..Len(text) :
                         /\ \A j \in (Len(key) + 2)..e : IsDigit(text[j])
                         /\ e = Len(text) \/ ~IsDigit(text[e + 1])
         IN  re_sub(key, SubSeq(text, last + 1, Len(text)))
    ELSE <<text[1]>> \o re_sub(key, Tail(text))

\* text[:-1] if text.endswith(char)
DropLast(text, char) ==
    IF text # <<>> /\ text[Len(text)] = char THEN SubSeq(text, 1, Len(text) - 1) ELSE text

\* lines 162-168: base_api_url, the template without its offset and length parameters
base_api_url(url_template) ==
    DropLast(DropLast(re_sub(LengthKey, re_sub(OffsetKey, url_template)), "?"), "&")

\* old in text
Contains(text, old) ==
    \E i \in 1..(Len(text) - Len(old) + 1) : SubSeq(text, i, i + Len(old) - 1) = old

\* text.replace(old, new, 1)
ReplaceFirst(text, old, new) ==
    IF ~Contains(text, old) THEN text
    ELSE LET i == CHOOSE k \in 1..(Len(text) - Len(old) + 1) :
                      /\ SubSeq(text, k, k + Len(old) - 1) = old
                      /\ \A j \in 1..(k - 1) : SubSeq(text, j, j + Len(old) - 1) # old
         IN  SubSeq(text, 1, i - 1) \o new \o SubSeq(text, i + Len(old), Len(text))

\* lines 162-168 and 184-190: paginated_api_url of the page at offset
page_url(url_template, offset) ==
    LET base == base_api_url(url_template)
        param_char == IF Contains(base, <<"?">>) THEN "&" ELSE "?"
        url == base \o <<param_char>> \o OffsetKey \o Str(offset)
                    \o <<"&">> \o LengthKey \o Str(RECORDS_PER_PAGE)
    IN  IF param_char = "?" /\ Contains(url, SubSeq(LengthKey, 1, 6))
        THEN ReplaceFirst(url, <<"?">> \o LengthKey \o Str(RECORDS_PER_PAGE),
                               <<"&">> \o LengthKey \o Str(RECORDS_PER_PAGE))
        ELSE url

\* the query parameters of the templates under SpecUrls: "offset=5", "length=100"
\* and another one, "k=1"
ParamOffset == OffsetKey \o <<"5">>

ParamLength == LengthKey \o <<"1", "0", "0">>

ParamOther == <<"k", "=", "1">>

\* "?p1&p2&...": the query string of the parameters
RECURSIVE Query(_)
Query(params) ==
    IF params = <<>> THEN <<>>
    ELSE Query(SubSeq(params, 1, Len(params) - 1))
            \o <<IF Len(params) = 1 THEN "?" ELSE "&">> \o params[Len(params)]

\* the templates under SpecUrls: "/map/A" with up to MaxParams parameters in any order
Templates ==
    {UrlA \o Query(params) :
        params \in SeqsUpTo({ParamOffset, ParamLength, ParamOther}, MaxParams)}

\* str.strip(): the text without its leading and trailing blanks
strip(text) ==
    LET inked == {i \in 1..Len(text) : text[i] # " "}
    IN  IF inked = {} THEN <<>>
        ELSE SubSeq(text, CHOOSE i \in inked : \A j \in inked : i <= j,
                          CHOOSE i \in inked : \A j \in inked : i >= j)

\* line.split('|', 1): the text around its first '|', or the text alone
split(text) ==
    LET bars == {i \in 1..Len(text) : text[i] = "|"}
    IN  IF bars = {} THEN <<text>>
        ELSE LET k == CHOOSE i \in bars : \A j \in bars : i <= j
             IN  <<SubSeq(text, 1, k - 1), SubSeq(text, k + 1, Len(text))>>

\* the display names of the maps
NameA == <<"M", "A">>

NameB == <<"M", "B">>

NameX == <<"M", "X">>

\* a blank line
BlankLine == <<" ">>

\* a comment, with a '|' in it
CommentLine == <<"#", "|">>

\* a line without '|'
MalformedLine == UrlA

\* "url_template | name"
EntryLine(url, name) == url \o <<" ", "|", " ">> \o name

Lines ==
    {BlankLine, CommentLine, MalformedLine,
     EntryLine(UrlA, NameA), EntryLine(UrlB, NameB), EntryLine(UrlX, NameX)}

\* os.path.exists(MAP_URLS_FILE) and the file's lines
Files ==
    {[exists |-> FALSE, lines |-> <<>>]}
        \cup {[exists |-> TRUE, lines |-> l] : l \in SeqsUpTo(Lines, MaxLines)}

\* lines 128-137: the entries of the valid lines, fetch_order = the 0-based line number
RECURSIVE ParseLines(_, _)
ParseLines(lines, line_num) ==
    IF line_num >= Len(lines) THEN <<>>
    ELSE LET line == strip(lines[line_num + 1])
             parts == split(line)
             rest == ParseLines(lines, line_num + 1)
         IN  IF line = <<>> \/ line[1] = "#" THEN rest
             ELSE IF Len(parts) = 2
             THEN <<[url_template |-> strip(parts[1]), name |-> strip(parts[2]),
                     fetch_order |-> line_num]>> \o rest
             ELSE rest

\* lines 128-137 for every file the model reads, each parsed once
map_url_entries_of == [file \in Files |-> ParseLines(file.lines, 0)]

-----------------------------------------------------------------------------
(* get_actual_country_info.  zone_data is the chain of a zone and its      *)
(* 'parent's, the zone itself first: <<>> is a missing or empty zone, and  *)
(* NoField is a missing 'name' or 'flag'.                                  *)

NoField == "-"

Zone(name, flag) == [name |-> name, flag |-> flag]

\* zone.get(key, default)
get(value, default) == IF value = NoField THEN default ELSE value

\* a faulty variant of lines 66-67 without the test of the grandparent
ResolveByParent(zone) ==
    LET country_name == IF zone = <<>> THEN "Unknown" ELSE get(zone[1].name, "Unknown")
        country_flag == IF zone = <<>> THEN "WOR" ELSE get(zone[1].flag, "WOR")
        breaks(i) ==
            IF i < Len(zone)
            THEN zone[i + 1].name = "World" /\ zone[i].name # "World"
            ELSE zone[i].name # "World"
        hits == {i \in 1..Len(zone) : breaks(i)}
    IN  IF Len(zone) > 1
        THEN IF hits = {} THEN <<country_name, country_flag>>
             ELSE LET i == CHOOSE k \in hits : \A j \in hits : k <= j
                  IN  <<get(zone[i].name, country_name), get(zone[i].flag, country_flag)>>
        ELSE IF Len(zone) = 1 /\ zone[1].name # "World"
        THEN <<get(zone[1].name, country_name), get(zone[1].flag, country_flag)>>
        ELSE <<country_name, country_flag>>

\* a faulty variant of line 62 that walks the path from the root to the leaf
ResolveRootFirst(zone) ==
    LET country_name == IF zone = <<>> THEN "Unknown" ELSE get(zone[1].name, "Unknown")
        country_flag == IF zone = <<>> THEN "WOR" ELSE get(zone[1].flag, "WOR")
        breaks(i) ==
            IF i < Len(zone)
            THEN \/ i + 2 <= Len(zone) /\ zone[i + 2].name = "World"
                 \/ zone[i + 1].name = "World" /\ zone[i].name # "World"
            ELSE zone[i].name # "World"
        hits == {i \in 1..Len(zone) : breaks(i)}
    IN  IF Len(zone) > 1
        THEN IF hits = {} THEN <<country_name, country_flag>>
             ELSE LET i == CHOOSE k \in hits : \A j \in hits : k >= j
                  IN  <<get(zone[i].name, country_name), get(zone[i].flag, country_flag)>>
        ELSE IF Len(zone) = 1 /\ zone[1].name # "World"
        THEN <<get(zone[1].name, country_name), get(zone[1].flag, country_flag)>>
        ELSE <<country_name, country_flag>>

\* lines 52-79.  path of line 59 is the chain with the outermost zone first, and the
\* loop of line 62 runs from its last index down: from the zone itself outwards.
get_actual_country_info(zone) ==
    LET country_name == IF zone = <<>> THEN "Unknown" ELSE get(zone[1].name, "Unknown")
        country_flag == IF zone = <<>> THEN "WOR" ELSE get(zone[1].flag, "WOR")
        \* lines 64-75: the loop breaks at the zone at position i
        breaks(i) ==
            IF i < Len(zone)
            THEN \/ i + 2 <= Len(zone) /\ zone[i + 2].name = "World"
                 \/ zone[i + 1].name = "World" /\ zone[i].name # "World"
            ELSE zone[i].name # "World"
        hits == {i \in 1..Len(zone) : breaks(i)}
    IN  IF Len(zone) > 1
        THEN IF hits = {} THEN <<country_name, country_flag>>
             ELSE LET i == CHOOSE k \in hits : \A j \in hits : k <= j
                  IN  <<get(zone[i].name, country_name), get(zone[i].flag, country_flag)>>
        ELSE IF Len(zone) = 1 /\ zone[1].name # "World"
        THEN <<get(zone[1].name, country_name), get(zone[1].flag, country_flag)>>
        ELSE <<country_name, country_flag>>

ZoneWorld == Zone("World", "WOR")

ZoneEurope == Zone("Europe", "EUR")

ZoneGermany == Zone("Germany", "GER")

ZoneFrance == Zone("France", "FRA")

ZoneBavaria == Zone("Bavaria", "BAV")

ZoneMunich == Zone("Munich", "MUN")

\* a zone without 'name' and 'flag'
ZoneBare == Zone(NoField, NoField)

\* the zones of the chains resolved under SpecZones
ZoneValues == {ZoneWorld, ZoneEurope, ZoneGermany, ZoneBavaria, ZoneMunich, ZoneBare}

\* every chain of at most MaxDepth zones
ZoneChains == SeqsUpTo(ZoneValues, MaxDepth)

\* a player of Germany, and one of France
InGermany == <<ZoneGermany, ZoneEurope, ZoneWorld>>

InFrance == <<ZoneFrance, ZoneEurope, ZoneWorld>>

-----------------------------------------------------------------------------
(* calculate_points_for_rank.  Points are counted in hundredths, the unit  *)
(* of round(points, 2).                                                    *)

RECURSIVE Pow(_, _)
Pow(b, e) == IF e = 0 THEN 1 ELSE b * Pow(b, e - 1)

\* math.ceil(math.log10(rank)) for rank >= 1: the least t with 10^t >= rank
RECURSIVE CeilLog10From(_, _)
CeilLog10From(r, t) == IF Pow(10, t) >= r THEN t ELSE CeilLog10From(r, t + 1)

\* a faulty variant of line 119 that cuts the digits after the second decimal
Truncate(num, den) == num \div den

\* round(): num / den to the nearest integer, a tie to the even one
Round(num, den) ==
    LET q == num \div den
        r == num % den
    IN  IF 2 * r > den \/ (2 * r = den /\ q % 2 = 1) THEN q + 1 ELSE q

\* the result of calculate_points_for_rank before any call
NoPoints == -1

\* a faulty variant of line 114 whose base is 4000 in every tier
PointsWithFlatBase(r) ==
    IF r <= 0 THEN 0
    ELSE LET ceil == CeilLog10From(r, 0)
             tier == IF ceil < 1 THEN 1 ELSE ceil
         IN  IF tier < 2 THEN Round(4000000, r)
             ELSE Round(400000 * Pow(10, tier - 1) + 360000 * r, r)

\* lines 108-119, in hundredths: 40000 / rank, or from the second tier on
\* (4000 / 2^(tier-1)) * (10^(tier-1) / rank + 0.9) over the common denominator
calculate_points_for_rank(r) ==
    IF r <= 0 THEN 0
    ELSE LET ceil == CeilLog10From(r, 0)
             tier == IF ceil < 1 THEN 1 ELSE ceil
         IN  IF tier < 2 THEN Round(4000000, r)
             ELSE Round(400000 * Pow(10, tier - 1) + 360000 * r, Pow(2, tier - 1) * r)

\* the ranks of the calls under SpecPoints
Ranks == (0 - MaxRank)..MaxRank

-----------------------------------------------------------------------------
(* refresh_all_tabs: the global ranking (lines 753-787) *)

\* lines 771-772: the points of the records of keys, added up; the scores are
\* hundredths of a point, so round(overall_score, 2) of line 777 leaves the sum as it is
RECURSIVE SumPoints(_, _)
SumPoints(d, keys) ==
    IF keys = {} THEN 0
    ELSE LET k == CHOOSE key \in keys : TRUE
         IN  calculate_points_for_rank(d.records[k].position) + SumPoints(d, keys \ {k})

\* lines 759-764: the keys of all_records_map[player_id]; every record that the fetch
\* stores has a position, so "position IS NOT NULL" drops none
RecordsOf(d, player_id) == {k \in DOMAIN d.records : k[2] = player_id}

\* lines 766-779: one entry per row of players, in the order of the rows
all_players_data_with_scores(d, rows) ==
    [i \in 1..Len(rows) |->
        [id |-> rows[i],
         name |-> d.players[rows[i]].last_known_name,
         country |-> d.players[rows[i]].country_name,
         score |-> SumPoints(d, RecordsOf(d, rows[i])),
         maps |-> Cardinality(RecordsOf(d, rows[i])),
         first_seen |-> d.players[rows[i]].first_seen_by_script_at]]

\* a faulty variant of line 783 that puts an entry before the entries of its score
RECURSIVE InsertTiesFirst(_, _)
InsertTiesFirst(sorted, item) ==
    IF sorted = <<>> THEN <<item>>
    ELSE IF sorted[1].score > item.score
    THEN <<sorted[1]>> \o InsertTiesFirst(Tail(sorted), item)
    ELSE <<item>> \o sorted

\* line 783: where sorted(..., reverse=True) puts an entry among the entries before
\* it: behind those of a higher or the same score (the sort is stable)
RECURSIVE InsertByScore(_, _)
InsertByScore(sorted, item) ==
    IF sorted = <<>> THEN <<item>>
    ELSE IF sorted[1].score >= item.score
    THEN <<sorted[1]>> \o InsertByScore(Tail(sorted), item)
    ELSE <<item>> \o sorted

\* line 783: sorted(items, key=score, reverse=True)
RECURSIVE temp_sorted_for_rank(_)
temp_sorted_for_rank(items) ==
    IF items = <<>> THEN <<>>
    ELSE InsertByScore(temp_sorted_for_rank(SubSeq(items, 1, Len(items) - 1)),
                       items[Len(items)])

\* lines 784-787: every entry with its global_rank, the place in the sorted list
WithGlobalRank(sorted) ==
    [i \in 1..Len(sorted) |->
        [id |-> sorted[i].id, name |-> sorted[i].name, country |-> sorted[i].country,
         score |-> sorted[i].score, maps |-> sorted[i].maps,
         first_seen |-> sorted[i].first_seen, global_rank |-> i]]

\* the orders in which a SELECT without ORDER BY may return the rows of ids
ReadOrders(ids) ==
    {rows \in [1..Cardinality(ids) -> ids] :
        \A i, j \in 1..Cardinality(ids) : i # j => rows[i] # rows[j]}

-----------------------------------------------------------------------------
(* The remote API: leaderboard rows and pages *)

\* one element of "tops": player.id, player.name, time, score, timestamp, and
\* player.zone, which is missing unless the row is placed In a zone
Row(id, name, time, score, timestamp) ==
    [id |-> id, name |-> name, time |-> time, score |-> score, timestamp |-> timestamp,
     zone |-> <<>>]

In(zone, row) == [row EXCEPT !.zone = zone]

RowA1 == In(InGermany, Row("p1", "a", 1, 10, "T1"))

\* p1 with another time, moved to France
RowA2 == In(InFrance, Row("p1", "a", 2, 20, "T2"))

\* p1 again, renamed
RowA1b == In(InGermany, Row("p1", "b", 1, 10, "T1"))

\* p1 without a "time"
RowA0 == In(InGermany, Row("p1", "a", NoTime, 0, NoStamp))

RowB1 == Row("p2", "b", 1, 30, "T3")

\* a row without a player id
RowN == Row(NoId, "Unknown", 1, 40, "T4")

\* the rows of the leaderboards reconciled under SpecRecon
RowValues == {RowA1, RowA2, RowA0, RowB1, RowN}

\* single pages of at most MaxRows rows each: every leaderboard over RowValues
ShortPages == SeqsUpTo(RowValues, MaxRows)

\* the i-th row of a page of a long leaderboard: the score tells the rows apart
LongRow(i) == Row("p2", "b", 1, i, "T3")

FullPage == [i \in 1..RECORDS_PER_PAGE |-> LongRow(i)]

TailPage == [i \in 1..TailRows |-> LongRow(i)]

\* the "tops" of the page responses under Spec (absent or empty: <<>>)
Pages == {<<>>, <<RowA1>>, <<RowA2>>, <<RowN, RowA1b>>, <<RowA1b, RowA1>>}

\* the "tops" of the page responses under SpecPages
LongPages == {<<>>, <<RowA1>>, TailPage, FullPage}

\* the "playercount" of a page response (absent: 0) beside short pages
ShortCounts == 0..MaxRows

\* the "playercount" of a page response under SpecPages
PlayerCounts ==
    {0, 1} \cup {k * RECORDS_PER_PAGE : k \in 1..MaxFullPages}
           \cup {MaxFullPages * RECORDS_PER_PAGE + TailRows}

-----------------------------------------------------------------------------
(* The store (init_db) and the session event log *)

EmptyDb == [maps |-> <<>>, players |-> <<>>, records |-> <<>>]

\* session_data of lines 149-152
EmptySession ==
    [newly_added_players |-> {}, new_pbs |-> <<>>, new_players_on_map |-> <<>>,
     new_wrs |-> <<>>, player_name_changes |-> <<>>]

\* a faulty variant of lines 144-145 that leaves the flags of the maps
ResetRecordFlagsOnly(d) ==
    [d EXCEPT
        !.records = [k \in DOMAIN d.records |->
                        [d.records[k] EXCEPT !.is_pb_since_last_fetch = FALSE,
                                             !.is_new_player_on_map_since_last_fetch = FALSE]]]

\* a faulty variant of lines 144-145 that leaves the flags of the records
ResetMapFlagsOnly(d) ==
    [d EXCEPT
        !.maps = [u \in DOMAIN d.maps |->
                        [d.maps[u] EXCEPT !.is_new_wr_since_last_fetch = FALSE]]]

\* lines 144-145: every *_since_last_fetch flag of the store is cleared
ResetFlags(d) ==
    [d EXCEPT
        !.records = [k \in DOMAIN d.records |->
                        [d.records[k] EXCEPT !.is_pb_since_last_fetch = FALSE,
                                             !.is_new_player_on_map_since_last_fetch = FALSE]],
        !.maps = [u \in DOMAIN d.maps |->
                        [d.maps[u] EXCEPT !.is_new_wr_since_last_fetch = FALSE]]]

-----------------------------------------------------------------------------
(* Reconciliation of one map (lines 205-219 and 238-334).  The steps work  *)
(* on c = [db |-> the store, sd |-> the session event log].                *)

\* INSERT INTO maps of lines 209-212: the WR columns NULL, the flag at its default 0
NewMapRow(entry, playercount, now) ==
    [api_url |-> entry.url_template, map_display_name |-> entry.name,
     last_playercount |-> playercount, last_fetched_at |-> now,
     wr_player_id |-> NoId, wr_time_ms |-> NoTime, wr_game_timestamp |-> NoStamp,
     wr_script_recorded_at |-> NoClock, is_new_wr_since_last_fetch |-> FALSE,
     fetch_order |-> entry.fetch_order]

\* a faulty variant of lines 209-218 that replaces the maps table by the row of this map
ReplaceMaps(d, uid, entry, playercount, now) ==
    [d EXCEPT !.maps =
        (uid :> [NewMapRow(entry, playercount, now) EXCEPT !.map_display_name = entry.name])]

\* lines 209-218: INSERT OR IGNORE, then UPDATE of the descriptive columns
UpsertMap(d, uid, entry, playercount, now) ==
    LET row == IF uid \in DOMAIN d.maps THEN d.maps[uid]
               ELSE NewMapRow(entry, playercount, now)
    IN  [d EXCEPT !.maps =
            (uid :> [row EXCEPT !.map_display_name = entry.name,
                                !.last_playercount = playercount,
                                !.last_fetched_at = now,
                                !.api_url = entry.url_template,
                                !.fetch_order = entry.fetch_order]) @@ d.maps]

\* a faulty variant of lines 238-243 that writes the number of rows fetched in any case
CorrectPlayercountAlways(d, uid, tops, playercount) ==
    IF uid \in DOMAIN d.maps
    THEN [d EXCEPT !.maps[uid].last_playercount = Len(tops)]
    ELSE d

\* lines 238-243: the stored player count follows the number of rows fetched
CorrectPlayercount(d, uid, tops, playercount) ==
    IF Len(tops) # playercount /\ uid \in DOMAIN d.maps
    THEN [d EXCEPT !.maps[uid].last_playercount = Len(tops)]
    ELSE d

\* a faulty variant of lines 262-263 and 304-305 that logs every name change it meets
LogEveryNameChange(sd, player_id, old_name, new_name) ==
    [sd EXCEPT !.player_name_changes = Append(@, <<player_id, old_name, new_name>>)]

\* lines 262-263 and 304-305: a name change is logged unless (player, new name) is logged already
LogNameChange(sd, player_id, old_name, new_name) ==
    IF \E i \in 1..Len(sd.player_name_changes) :
            /\ sd.player_name_changes[i][1] = player_id
            /\ sd.player_name_changes[i][3] = new_name
    THEN sd
    ELSE [sd EXCEPT !.player_name_changes = Append(@, <<player_id, old_name, new_name>>)]

\* lines 258-260 and 298-300
InsertPlayer(c, player_id, name, country, now) ==
    [db |-> [c.db EXCEPT !.players =
                (player_id :> [last_known_name |-> name,
                               country_name |-> country[1],
                               country_flag |-> country[2],
                               first_seen_by_script_at |-> now]) @@ c.db.players],
     sd |-> [c.sd EXCEPT !.newly_added_players = @ \cup {name}]]

\* a faulty variant of lines 264-265 and 307-308 that replaces the whole row, leaving
\* first_seen_by_script_at NULL
ReplacePlayer(c, player_id, name, country) ==
    [c EXCEPT !.db.players[player_id] =
        [last_known_name |-> name, country_name |-> country[1],
         country_flag |-> country[2], first_seen_by_script_at |-> NoClock]]

\* lines 264-265 and 307-308 (name and country are written; first_seen_by_script_at is not)
UpdatePlayer(c, player_id, name, country) ==
    [c EXCEPT !.db.players[player_id].last_known_name = name,
              !.db.players[player_id].country_name = country[1],
              !.db.players[player_id].country_flag = country[2]]

\* lines 267-268: the country alone is written
UpdateCountry(c, player_id, country) ==
    [c EXCEPT !.db.players[player_id].country_name = country[1],
              !.db.players[player_id].country_flag = country[2]]

\* lines 253-268: the rank-1 player is inserted or renamed before the WR comparison
UpsertWrPlayer(c, tops, now) ==
    IF tops = <<>> \/ tops[1].id = NoId THEN c
    ELSE LET id == tops[1].id
             name == tops[1].name
             country == get_actual_country_info(tops[1].zone)
         IN  IF id \notin DOMAIN c.db.players THEN InsertPlayer(c, id, name, country, now)
             ELSE IF c.db.players[id].last_known_name # name
             THEN UpdatePlayer([c EXCEPT !.sd = LogNameChange(c.sd, id,
                                       c.db.players[id].last_known_name, name)],
                               id, name, country)
             ELSE UpdateCountry(c, id, country)

\* line 272: the stored WR of the map, the holder's name through the LEFT JOIN on players
StoredWr(d, uid) ==
    IF uid \notin DOMAIN d.maps
    THEN [player_id |-> NoId, time_ms |-> NoTime, name |-> "N/A"]
    ELSE [player_id |-> d.maps[uid].wr_player_id,
          time_ms |-> d.maps[uid].wr_time_ms,
          name |-> IF d.maps[uid].wr_player_id \in DOMAIN d.players
                   THEN d.players[d.maps[uid].wr_player_id].last_known_name
                   ELSE "N/A"]

\* the new-holder text of a WR event that clears the snapshot (line 282)
NoHolder == "None (Empty Leaderboard or WR Deleted)"

\* a faulty variant of line 276 that compares the holder alone
HolderDiffers(stored, api_wr_player_id, api_wr_time_ms) ==
    stored.player_id # api_wr_player_id

\* line 276: the candidate differs from the stored snapshot in holder or in time
WrDiffers(stored, api_wr_player_id, api_wr_time_ms) ==
    stored.player_id # api_wr_player_id \/ stored.time_ms # api_wr_time_ms

\* lines 277-280: a WR event, and the snapshot overwritten with the candidate
SetWr(c, uid, entry, row, stored, now) ==
    [db |-> IF uid \in DOMAIN c.db.maps
            THEN [c.db EXCEPT !.maps[uid] =
                     [@ EXCEPT !.wr_player_id = row.id,
                               !.wr_time_ms = row.time,
                               !.wr_game_timestamp = row.timestamp,
                               !.wr_script_recorded_at = now,
                               !.is_new_wr_since_last_fetch = TRUE]]
            ELSE c.db,
     sd |-> [c.sd EXCEPT !.new_wrs =
                Append(@, <<entry.name, row.name, row.time, stored.name, stored.time_ms>>)]]

\* a faulty variant of lines 282-285 that reports the WR gone but keeps the snapshot
ClearWrEventOnly(c, uid, entry, stored, now) ==
    [c EXCEPT !.sd.new_wrs =
        Append(@, <<entry.name, NoHolder, NoTime, stored.name, stored.time_ms>>)]

\* lines 282-285: a WR event without a new holder, and the snapshot cleared
ClearWr(c, uid, entry, stored, now) ==
    [db |-> [c.db EXCEPT !.maps[uid] =
                [@ EXCEPT !.wr_player_id = NoId,
                          !.wr_time_ms = NoTime,
                          !.wr_game_timestamp = NoStamp,
                          !.wr_script_recorded_at = now,
                          !.is_new_wr_since_last_fetch = TRUE]],
     sd |-> [c.sd EXCEPT !.new_wrs =
                Append(@, <<entry.name, NoHolder, NoTime, stored.name, stored.time_ms>>)]]

\* lines 245-252 and 270-285: the WR candidate (the first row) against the stored snapshot
CompareWr(c, uid, entry, tops, now) ==
    LET stored == StoredWr(c.db, uid)
    IN  IF tops # <<>> /\ tops[1].id # NoId /\ tops[1].time # NoTime
        THEN IF WrDiffers(stored, tops[1].id, tops[1].time)
             THEN SetWr(c, uid, entry, tops[1], stored, now)
             ELSE c
        ELSE IF stored.player_id # NoId
        THEN ClearWr(c, uid, entry, stored, now)
        ELSE c

\* lines 295-308: the player of a row is inserted, or renamed unconditionally
UpsertPlayer(c, row, now) ==
    IF row.id \notin DOMAIN c.db.players
    THEN InsertPlayer(c, row.id, row.name, get_actual_country_info(row.zone), now)
    ELSE LET db_last_known_name == c.db.players[row.id].last_known_name
         IN  UpdatePlayer(
                 IF db_last_known_name # row.name
                 THEN [c EXCEPT !.sd = LogNameChange(c.sd, row.id, db_last_known_name,
                                                     row.name)]
                 ELSE c,
                 row.id, row.name, get_actual_country_info(row.zone))

\* a faulty variant of lines 321-324 that takes an equal time for an improvement
IsPbOrEqualTime(time_ms_val, rank, existing_time_ms, existing_pos) ==
    time_ms_val # NoTime /\ (existing_time_ms = NoTime \/ time_ms_val <= existing_time_ms)

\* a faulty variant of lines 321-324 without the rank rule of line 324
IsPbByTimeOnly(time_ms_val, rank, existing_time_ms, existing_pos) ==
    time_ms_val # NoTime /\ (existing_time_ms = NoTime \/ time_ms_val < existing_time_ms)

\* a faulty variant of lines 321-324 that takes every other time for an improvement
IsPbOnAnyOtherTime(time_ms_val, rank, existing_time_ms, existing_pos) ==
    \/ time_ms_val # NoTime /\ (existing_time_ms = NoTime \/ time_ms_val # existing_time_ms)
    \/ /\ time_ms_val # NoTime /\ existing_time_ms # NoTime
       /\ time_ms_val = existing_time_ms /\ rank < existing_pos

\* lines 321-324: is_pb
IsPb(time_ms_val, rank, existing_time_ms, existing_pos) ==
    \/ time_ms_val # NoTime /\ (existing_time_ms = NoTime \/ time_ms_val < existing_time_ms)
    \/ /\ time_ms_val # NoTime /\ existing_time_ms # NoTime
       /\ time_ms_val = existing_time_ms /\ rank < existing_pos

\* the row INSERTed at line 316: is_pb 0, is_new_player_on_map 1
NewRecord(row, rank, now) ==
    [time_ms |-> row.time, score |-> row.score,
     position |-> rank, game_timestamp |-> row.timestamp,
     script_recorded_at |-> now, script_updated_at |-> now,
     is_pb_since_last_fetch |-> FALSE,
     is_new_player_on_map_since_last_fetch |-> TRUE]

\* a faulty variant of lines 315-318 that inserts the record without the event
InsertRecordNoEvent(c, uid, entry, row, rank, now) ==
    [c EXCEPT !.db.records = (<<uid, row.id>> :> NewRecord(row, rank, now)) @@ @]

\* lines 315-318: the record is inserted and a new-player-on-map event appended
InsertRecord(c, uid, entry, row, rank, now) ==
    [db |-> [c.db EXCEPT !.records =
                (<<uid, row.id>> :> NewRecord(row, rank, now)) @@ c.db.records],
     sd |-> [c.sd EXCEPT !.new_players_on_map =
                Append(@, <<row.name, entry.name, row.time>>)]]

\* a faulty variant of lines 330-334 that writes the fetch time to both timestamps
TouchRecordAsNew(c, key, existing, rank, now) ==
    [c EXCEPT !.db.records[key] =
        [@ EXCEPT !.position = rank, !.script_recorded_at = now,
                  !.script_updated_at = now]]

\* lines 330-334: not a PB; the position follows the rank if it differs, and
\* script_updated_at takes the fetch time
TouchRecord(c, key, existing, rank, now) ==
    IF rank # existing.position
    THEN [c EXCEPT !.db.records[key] =
             [@ EXCEPT !.position = rank, !.script_updated_at = now]]
    ELSE [c EXCEPT !.db.records[key].script_updated_at = now]

\* lines 310-334: the record of (map, player) is inserted, improved, re-ranked or touched
UpsertRecord(c, uid, entry, row, rank, now) ==
    LET key == <<uid, row.id>>
    IN  IF key \notin DOMAIN c.db.records
        THEN InsertRecord(c, uid, entry, row, rank, now)
        ELSE LET existing == c.db.records[key]
             IN  IF IsPb(row.time, rank, existing.time_ms, existing.position)
                 THEN [db |-> [c.db EXCEPT !.records[key] =
                                  [@ EXCEPT !.time_ms = row.time,
                                            !.score = row.score,
                                            !.position = rank,
                                            !.game_timestamp = row.timestamp,
                                            !.script_updated_at = now,
                                            !.is_pb_since_last_fetch = TRUE]],
                       sd |-> [c.sd EXCEPT !.new_pbs =
                                  Append(@, <<row.name, entry.name, row.time,
                                              existing.time_ms>>)]]
                 ELSE TouchRecord(c, key, existing, rank, now)

\* a faulty variant of lines 333-334 whose UPDATE lacks "AND player_id=?"
ProcessRowTouchingMap(c, uid, entry, row, rank, now) ==
    IF row.id = NoId THEN c
    ELSE LET after == UpsertRecord(UpsertPlayer(c, row, now), uid, entry, row, rank, now)
         IN  [after EXCEPT !.db.records =
                 [k \in DOMAIN after.db.records |->
                     IF k[1] = uid
                     THEN [after.db.records[k] EXCEPT !.script_updated_at = now]
                     ELSE after.db.records[k]]]

\* lines 290-334: one row; a row without a player id is skipped (line 293)
ProcessRow(c, uid, entry, row, rank, now) ==
    IF row.id = NoId THEN c
    ELSE UpsertRecord(UpsertPlayer(c, row, now), uid, entry, row, rank, now)

\* lines 289-334: the rows of ranks lo..hi in ascending rank (the range is halved to
\* keep the evaluation shallow on a leaderboard of hundreds of rows)
RECURSIVE ProcessRows(_, _, _, _, _, _, _)
ProcessRows(c, uid, entry, tops, lo, hi, now) ==
    IF lo > hi THEN c
    ELSE IF lo = hi THEN ProcessRow(c, uid, entry, tops[lo], lo, now)
    ELSE LET mid == (lo + hi) \div 2
             half == ProcessRows(c, uid, entry, tops, lo, mid, now)
         IN  IF half = half   \* the first half is evaluated before the second starts
             THEN ProcessRows(half, uid, entry, tops, mid + 1, hi, now)
             ELSE c

\* lines 238-334: everything between the end of the page loop and conn.commit()
ReconcileMap(c, uid, entry, tops, playercount, now) ==
    LET c1 == [c EXCEPT !.db = CorrectPlayercount(c.db, uid, tops, playercount)]
        c2 == UpsertWrPlayer(c1, tops, now)
        c3 == CompareWr(c2, uid, entry, tops, now)
    IN  ProcessRows(c3, uid, entry, tops, 1, Len(tops), now)

-----------------------------------------------------------------------------
(* fetch_and_process_data as a state machine.  A step runs from one        *)
(* blocking point (the call, a page request) to the next.                  *)

Msg(msg, entry, n) == [msg |-> msg, entry |-> entry, n |-> n]

NotReturned == [status |-> "none", data |-> EmptySession]

\* the state before the first run
InitRuns ==
    /\ db = EmptyDb
    /\ committed = EmptyDb
    /\ session_data = EmptySession
    /\ returned = NotReturned
    /\ pc = "idle"
    /\ map_url_entries = <<>>
    /\ idx = 0
    /\ current_fetch_time = 0
    /\ map_uid = NoUid
    /\ all_tops_for_map = <<>>
    /\ current_offset = 0
    /\ map_total_playercount_api = 0
    /\ first_fetch_done = FALSE
    /\ log = <<>>
    /\ source = [exists |-> FALSE, lines |-> <<>>]
    /\ served = <<>>
    /\ reconciled = <<>>
    /\ repeated = FALSE
    /\ wr_changed = {}

\* refresh_all_tabs has not run
NotRefreshed ==
    /\ player_rows = <<>>
    /\ overall_lb_sorted_players_with_rank = <<>>
    /\ refreshes = 0

\* no call of a pure function is in progress
NoCalls ==
    /\ call_rank = 0
    /\ points = NoPoints
    /\ zone_data = <<>>
    /\ country_info = <<>>
    /\ base_api_url_template = <<>>
    /\ page_offset = 0
    /\ paginated_api_url = <<>>
    /\ NotRefreshed

Init == InitRuns /\ NoCalls

\* entry_data of the for loop at line 157
entry_data == map_url_entries[idx]

\* a faulty variant of lines 123-140 that resets the flags before it reads the source list
FatalAfterReset(file) ==
    /\ pc = "idle"
    /\ ~file.exists \/ map_url_entries_of[file] = <<>>
    /\ returned' = [status |-> "error", data |-> EmptySession]
    /\ log' = <<Msg("fatal", 0, 0)>>
    /\ source' = file
    /\ db' = ResetFlags(db)
    /\ committed' = ResetFlags(db)
    /\ UNCHANGED <<session_data, pc, map_url_entries, idx,
                   current_fetch_time, map_uid, all_tops_for_map, current_offset,
                   map_total_playercount_api, first_fetch_done,
                   served, reconciled, repeated, wr_changed, calls>>

\* lines 123-140: the source list is missing or holds no valid entry
FatalSourceList(file) ==
    /\ pc = "idle"
    /\ ~file.exists \/ map_url_entries_of[file] = <<>>
    /\ returned' = [status |-> "error", data |-> EmptySession]
    /\ log' = <<Msg("fatal", 0, 0)>>
    /\ source' = file
    /\ UNCHANGED <<db, committed, session_data, pc, map_url_entries, idx,
                   current_fetch_time, map_uid, all_tops_for_map, current_offset,
                   map_total_playercount_api, first_fetch_done,
                   served, reconciled, repeated, wr_changed, calls>>

\* lines 123-155: the source list is read, the flags are reset and committed
StartRun(file) ==
    /\ pc = "idle"
    /\ file.exists /\ map_url_entries_of[file] # <<>>
    /\ map_url_entries' = map_url_entries_of[file]
    /\ db' = ResetFlags(db)
    /\ committed' = ResetFlags(db)
    /\ current_fetch_time' = current_fetch_time + 1
    /\ session_data' = EmptySession
    /\ returned' = NotReturned
    /\ idx' = 1
    /\ pc' = "entry"
    /\ log' = <<>>
    /\ source' = file
    /\ wr_changed' = {}
    /\ UNCHANGED <<map_uid, all_tops_for_map, current_offset,
                   map_total_playercount_api, first_fetch_done,
                   served, reconciled, repeated, calls>>

\* a faulty variant of lines 171-174 that leaves the for loop (break for continue)
SkipEntryAndRest ==
    /\ pc = "entry"
    /\ idx <= Len(map_url_entries)
    /\ extract_map_uid_from_url(entry_data.url_template) = NoUid
    /\ idx' = Len(map_url_entries) + 1
    /\ log' = Append(log, Msg("no_uid", idx, 0))
    /\ UNCHANGED <<db, committed, session_data, returned, pc, map_url_entries,
                   current_fetch_time, map_uid, all_tops_for_map, current_offset,
                   map_total_playercount_api, first_fetch_done,
                   source, served, reconciled, repeated, wr_changed, calls>>

\* lines 171-174: no map uid in the URL template, the entry is skipped
SkipEntry ==
    /\ pc = "entry"
    /\ idx <= Len(map_url_entries)
    /\ extract_map_uid_from_url(entry_data.url_template) = NoUid
    /\ idx' = idx + 1
    /\ log' = Append(log, Msg("no_uid", idx, 0))
    /\ UNCHANGED <<db, committed, session_data, returned, pc, map_url_entries,
                   current_fetch_time, map_uid, all_tops_for_map, current_offset,
                   map_total_playercount_api, first_fetch_done,
                   source, served, reconciled, repeated, wr_changed, calls>>

\* lines 171-181: the page loop of the entry's map is set up
BeginMap ==
    /\ pc = "entry"
    /\ idx <= Len(map_url_entries)
    /\ extract_map_uid_from_url(entry_data.url_template) # NoUid
    /\ map_uid' = extract_map_uid_from_url(entry_data.url_template)
    /\ all_tops_for_map' = <<>>
    /\ current_offset' = 0
    /\ map_total_playercount_api' = 0
    /\ first_fetch_done' = FALSE
    /\ pc' = "page"
    /\ served' = <<>>
    /\ UNCHANGED <<db, committed, session_data, returned, map_url_entries, idx,
                   current_fetch_time, log, source, reconciled, repeated, wr_changed, calls>>

\* lines 238-337: the rows collected are reconciled and committed, then the pause between maps
FinishMap(d, tops, playercount, lg) ==
    LET c == ReconcileMap([db |-> d, sd |-> session_data], map_uid, entry_data, tops,
                          playercount, current_fetch_time)
    IN  /\ db' = c.db
        /\ committed' = c.db
        /\ session_data' = c.sd
        /\ all_tops_for_map' = tops
        /\ map_total_playercount_api' = playercount
        /\ log' = lg \o <<Msg("finished", idx, Len(tops)), Msg("sleep", idx, 0)>>
        /\ idx' = idx + 1
        /\ pc' = "entry"
        /\ reconciled' = (map_uid :> [tops |-> tops, run |-> current_fetch_time])
                             @@ reconciled
        /\ repeated' = /\ map_uid \in DOMAIN reconciled
                       /\ reconciled[map_uid].tops = tops
                       /\ reconciled[map_uid].run < current_fetch_time
        /\ wr_changed' =
              IF \/ StoredWr(c.db, map_uid).player_id # StoredWr(db, map_uid).player_id
                 \/ StoredWr(c.db, map_uid).time_ms # StoredWr(db, map_uid).time_ms
              THEN wr_changed \cup {map_uid}
              ELSE wr_changed
        /\ UNCHANGED <<returned, map_url_entries, current_fetch_time, map_uid, source,
                       calls>>

\* a faulty variant of lines 193-203 that gives up the run
PageFailAborts ==
    /\ pc = "page"
    /\ pc' = "idle"
    /\ returned' = [status |-> "ok", data |-> session_data]
    /\ log' = log \o <<Msg("page", idx, current_offset), Msg("error", idx, 0)>>
    /\ UNCHANGED <<db, committed, session_data, map_url_entries, idx,
                   current_fetch_time, map_uid, all_tops_for_map, current_offset,
                   map_total_playercount_api, first_fetch_done,
                   source, served, reconciled, repeated, wr_changed, calls>>

\* a faulty variant of lines 193-203 that forgets the rows collected before the failure
PageFailDropsRows ==
    /\ pc = "page"
    /\ FinishMap(db, <<>>, map_total_playercount_api,
                 log \o <<Msg("page", idx, current_offset), Msg("error", idx, 0)>>)
    /\ UNCHANGED <<current_offset, first_fetch_done, served>>

\* lines 193-203: the request raises (transport failure or undecodable body): break
PageFail ==
    /\ pc = "page"
    /\ FinishMap(db, all_tops_for_map, map_total_playercount_api,
                 log \o <<Msg("page", idx, current_offset), Msg("error", idx, 0)>>)
    /\ UNCHANGED <<current_offset, first_fetch_done, served>>

\* lines 207-208: "playercount" is read from the first page only
CountAfter(playercount) ==
    IF first_fetch_done THEN map_total_playercount_api ELSE playercount

\* lines 207-219: the map row is written on the first page only
DbAfterPage(playercount) ==
    IF first_fetch_done THEN db
    ELSE UpsertMap(db, map_uid, entry_data, playercount, current_fetch_time)

\* a faulty variant of lines 221-235 that goes on when the offset equals the playercount
EndsLoopBeyondCount(tops, playercount) ==
    \/ tops = <<>>
    \/ Len(tops) < RECORDS_PER_PAGE
    \/ /\ current_offset + RECORDS_PER_PAGE > CountAfter(playercount)
       /\ CountAfter(playercount) > 0
    \/ /\ current_offset + RECORDS_PER_PAGE >= SAFETY_CAP
       /\ CountAfter(playercount) = 0

\* lines 221-235: a page requested at offset ends the loop, count being the player
\* count that the first page reported
LoopEndsAt(tops, offset, count) ==
    \/ tops = <<>>
    \/ Len(tops) < RECORDS_PER_PAGE
    \/ offset + RECORDS_PER_PAGE >= count /\ count > 0
    \/ offset + RECORDS_PER_PAGE >= SAFETY_CAP /\ count = 0

\* lines 221-235: the page ends the loop
EndsLoop(tops, playercount) == LoopEndsAt(tops, current_offset, CountAfter(playercount))

\* the responses of an API that never runs out of rows: at most MaxCapPages full
\* pages per map, and a playercount only where the code reads it
ServedForever(tops, playercount) ==
    /\ first_fetch_done => playercount = 0
    /\ Len(tops) = RECORDS_PER_PAGE => current_offset < MaxCapPages * RECORDS_PER_PAGE

\* the responses the model draws: at most MaxFullPages full pages per map, and a
\* playercount only where the code reads it
Served(tops, playercount) ==
    /\ first_fetch_done => playercount = 0
    /\ Len(tops) = RECORDS_PER_PAGE => current_offset < MaxFullPages * RECORDS_PER_PAGE

\* a faulty variant of lines 193-236 without the pause of line 236
PageMoreAtOnce(tops, playercount) ==
    /\ pc = "page"
    /\ ~EndsLoop(tops, playercount)
    /\ db' = DbAfterPage(playercount)
    /\ map_total_playercount_api' = CountAfter(playercount)
    /\ first_fetch_done' = TRUE
    /\ all_tops_for_map' = all_tops_for_map \o tops
    /\ current_offset' = current_offset + RECORDS_PER_PAGE
    /\ log' = Append(log, Msg("page", idx, current_offset))
    /\ served' = served \o tops
    /\ UNCHANGED <<committed, session_data, returned, pc, map_url_entries, idx,
                   current_fetch_time, map_uid, source, reconciled, repeated, wr_changed, calls>>

\* lines 193-236: a page arrives and the loop goes on after the pause between pages
PageMore(tops, playercount) ==
    /\ pc = "page"
    /\ ~EndsLoop(tops, playercount)
    /\ db' = DbAfterPage(playercount)
    /\ map_total_playercount_api' = CountAfter(playercount)
    /\ first_fetch_done' = TRUE
    /\ all_tops_for_map' = all_tops_for_map \o tops
    /\ current_offset' = current_offset + RECORDS_PER_PAGE
    /\ log' = log \o <<Msg("page", idx, current_offset), Msg("sleep", idx, 0)>>
    /\ served' = served \o tops
    /\ UNCHANGED <<committed, session_data, returned, pc, map_url_entries, idx,
                   current_fetch_time, map_uid, source, reconciled, repeated, wr_changed, calls>>

\* lines 193-235 and 238-337: a page arrives and ends the loop
PageEnd(tops, playercount) ==
    /\ pc = "page"
    /\ EndsLoop(tops, playercount)
    /\ FinishMap(DbAfterPage(playercount), all_tops_for_map \o tops,
                 CountAfter(playercount), Append(log, Msg("page", idx, current_offset)))
    /\ first_fetch_done' = TRUE
    /\ served' = served \o tops
    /\ current_offset' = IF Len(tops) = RECORDS_PER_PAGE
                         THEN current_offset + RECORDS_PER_PAGE
                         ELSE current_offset

\* lines 339-371: the source list is exhausted, the session event log is returned
EndRun ==
    /\ pc = "entry"
    /\ idx > Len(map_url_entries)
    /\ pc' = "idle"
    /\ returned' = [status |-> "ok", data |-> session_data]
    /\ log' = Append(log, Msg("complete", 0, 0))
    /\ UNCHANGED <<db, committed, session_data, map_url_entries, idx,
                   current_fetch_time, map_uid, all_tops_for_map, current_offset,
                   map_total_playercount_api, first_fetch_done,
                   source, served, reconciled, repeated, wr_changed, calls>>

Next ==
    \/ \E file \in Files : FatalSourceList(file)
    \/ \E file \in Files : current_fetch_time < MaxRuns /\ StartRun(file)
    \/ SkipEntry
    \/ BeginMap
    \/ PageFail
    \/ \E tops \in Pages, playercount \in ShortCounts : PageEnd(tops, playercount)
    \/ EndRun

\* Runs over source lists of up to MaxLines lines (two maps, and lines that are no
\* entry or carry no map uid), each leaderboard a single short page.
Spec == Init /\ [][Next]_vars

\* the source list of SpecRecon: the one map A
ReconFiles == {[exists |-> TRUE, lines |-> <<EntryLine(UrlA, NameA)>>]}

NextRecon ==
    \/ \E file \in ReconFiles : current_fetch_time < MaxReconRuns /\ StartRun(file)
    \/ BeginMap
    \/ PageFail
    \/ \E tops \in ShortPages, playercount \in ShortCounts : PageEnd(tops, playercount)
    \/ EndRun

\* Runs over one map, its leaderboard any sequence of at most MaxRows rows of RowValues.
SpecRecon == Init /\ [][NextRecon]_vars

\* the source lists of SpecPages: entries only
PageFiles ==
    {[exists |-> TRUE, lines |-> l] :
        l \in SeqsUpTo({EntryLine(UrlA, NameA), EntryLine(UrlB, NameB),
                        EntryLine(UrlX, NameX)}, MaxLines) \ {<<>>}}

NextPages ==
    \/ \E file \in PageFiles : current_fetch_time < MaxLongRuns /\ StartRun(file)
    \/ SkipEntry
    \/ BeginMap
    \/ PageFail
    \/ \E tops \in LongPages, playercount \in PlayerCounts :
          Served(tops, playercount) /\ PageMore(tops, playercount)
    \/ \E tops \in LongPages, playercount \in PlayerCounts :
          Served(tops, playercount) /\ PageEnd(tops, playercount)
    \/ EndRun

\* Runs whose leaderboards span several pages of RECORDS_PER_PAGE rows.
SpecPages == Init /\ [][NextPages]_vars

\* the source list of SpecCap: the one map A
CapFiles == ReconFiles

\* a "playercount" below zero
NegativeCount == -1

\* the "playercount" of the first page under SpecCap
CapCounts == {NegativeCount, 0}

\* the "tops" of the page responses under SpecCap
CapPages == {<<>>, FullPage}

NextCap ==
    \/ \E file \in CapFiles : current_fetch_time < MaxLongRuns /\ StartRun(file)
    \/ BeginMap
    \/ \E tops \in CapPages, playercount \in CapCounts :
          ServedForever(tops, playercount) /\ PageMore(tops, playercount)
    \/ \E tops \in CapPages, playercount \in CapCounts :
          ServedForever(tops, playercount) /\ PageEnd(tops, playercount)
    \/ EndRun

\* One run over one map whose API serves full pages for as long as it is asked, with
\* a reported player count of zero or below.
SpecCap == Init /\ [][NextCap]_vars

\* the variables of fetch_and_process_data
runs == <<db, committed, session_data, returned, pc, map_url_entries, idx,
          current_fetch_time, map_uid, all_tops_for_map, current_offset,
          map_total_playercount_api, first_fetch_done, log,
          source, served, reconciled, repeated, wr_changed>>

\* a zone chain to resolve
InitZones ==
    /\ InitRuns
    /\ call_rank = 0 /\ points = NoPoints
    /\ zone_data \in ZoneChains
    /\ country_info = <<>>
    /\ base_api_url_template = <<>> /\ page_offset = 0 /\ paginated_api_url = <<>>
    /\ NotRefreshed

\* get_actual_country_info(zone_data) returns
ResolveZone ==
    /\ country_info = <<>>
    /\ country_info' = get_actual_country_info(zone_data)
    /\ UNCHANGED <<runs, call_rank, points, zone_data, url_call, rank_call>>

NextZones == ResolveZone

\* One call of get_actual_country_info on every chain of at most MaxDepth zones.
SpecZones == InitZones /\ [][NextZones]_vars

\* a template and the offset of a page
InitUrls ==
    /\ InitRuns
    /\ call_rank = 0 /\ points = NoPoints
    /\ zone_data = <<>> /\ country_info = <<>>
    /\ base_api_url_template \in Templates
    /\ page_offset \in {k * RECORDS_PER_PAGE : k \in 0..MaxPageIndex}
    /\ paginated_api_url = <<>>
    /\ NotRefreshed

\* the URL of the page request is built
BuildUrl ==
    /\ paginated_api_url = <<>>
    /\ paginated_api_url' = page_url(base_api_url_template, page_offset)
    /\ UNCHANGED <<runs, call_rank, points, zone_data, country_info,
                   base_api_url_template, page_offset, rank_call>>

NextUrls == BuildUrl

\* The page URL of every template of up to MaxParams parameters, for the first pages.
SpecUrls == InitUrls /\ [][NextUrls]_vars

\* lines 753-787: refresh_all_tabs reads the players in the order rows and ranks them
Refresh(rows) ==
    /\ pc = "idle"
    /\ refreshes < MaxRefreshes
    /\ player_rows' = rows
    /\ overall_lb_sorted_players_with_rank' =
           WithGlobalRank(temp_sorted_for_rank(all_players_data_with_scores(committed, rows)))
    /\ refreshes' = refreshes + 1
    /\ UNCHANGED <<runs, call_rank, points, zone_data, country_info, url_call>>

\* the source list of SpecRank: the maps A and B
RankFiles == {[exists |-> TRUE, lines |-> <<EntryLine(UrlA, NameA), EntryLine(UrlB, NameB)>>]}

\* a third player
RowC1 == Row("p3", "c", 3, 50, "T5")

\* the "tops" of the page responses under SpecRank
RankPages == {<<>>, <<RowA1, RowB1>>, <<RowB1, RowA1>>, <<RowB1, RowC1>>, <<RowC1>>}

NextRank ==
    \/ \E file \in RankFiles :
          refreshes = 0 /\ current_fetch_time < MaxRankRuns /\ StartRun(file)
    \/ BeginMap
    \/ \E tops \in RankPages : PageEnd(tops, 0)
    \/ EndRun
    \/ \E rows \in ReadOrders(DOMAIN committed.players) : Refresh(rows)

\* Up to MaxRankRuns runs over two maps and three players, then one refresh of the GUI
\* that reads the players in any order.
SpecRank == Init /\ [][NextRank]_vars

\* a rank to score
InitPoints ==
    /\ InitRuns
    /\ call_rank \in Ranks /\ points = NoPoints
    /\ zone_data = <<>> /\ country_info = <<>>
    /\ base_api_url_template = <<>> /\ page_offset = 0 /\ paginated_api_url = <<>>
    /\ NotRefreshed

\* calculate_points_for_rank(call_rank) returns
CalculatePoints ==
    /\ points = NoPoints
    /\ points' = calculate_points_for_rank(call_rank)
    /\ UNCHANGED <<runs, call_rank, zone_data, country_info, url_call, rank_call>>

NextPoints == CalculatePoints

\* One call of calculate_points_for_rank on every rank of -MaxRank..MaxRank.
SpecPoints == InitPoints /\ [][NextPoints]_vars

-----------------------------------------------------------------------------
(* Vocabulary of the properties *)

\* what a step appended to a list of the session event log
Appended(before, after) == SubSeq(after, Len(before) + 1, Len(after))

\* a step that ends the page loop of a map: its rows are reconciled and committed
ReconcileStep == pc = "page" /\ pc' = "entry"

\* no player id occurs in two rows
DistinctIds(tops) ==
    \A i, j \in 1..Len(tops) : i # j /\ tops[i].id = tops[j].id => tops[i].id = NoId

\* the records of the store, script_updated_at aside, are those of before the step
RecordsKept ==
    /\ DOMAIN db'.records = DOMAIN db.records
    /\ \A k \in DOMAIN db.records :
          [db'.records[k] EXCEPT !.script_updated_at = db.records[k].script_updated_at]
              = db.records[k]

\* the step appended no PB, no new-player-on-map and no WR event
NoChangeEvents ==
    /\ session_data'.new_pbs = session_data.new_pbs
    /\ session_data'.new_players_on_map = session_data.new_players_on_map
    /\ session_data'.new_wrs = session_data.new_wrs

-----------------------------------------------------------------------------
(* C1 *)

\* C1 as stated: reconciling in a later run the leaderboard that was last reconciled
\* for the map appends no PB, new-player-on-map or WR event and changes no record
\* field but script_updated_at, for any leaderboard.
C1_Idempotent ==
    [][ReconcileStep /\ repeated' => NoChangeEvents /\ RecordsKept]_vars

\* C1 amended: the same, for every leaderboard in which no player id occurs twice.
C1_IdempotentDistinct ==
    [][ReconcileStep /\ repeated' /\ DistinctIds(all_tops_for_map')
          => NoChangeEvents /\ RecordsKept]_vars

\* a leaderboard with players was reconciled a second time
C1_Witness ==
    /\ pc = "entry" /\ repeated
    /\ DistinctIds(all_tops_for_map)
    /\ \E i \in 1..Len(all_tops_for_map) : all_tops_for_map[i].id # NoId

-----------------------------------------------------------------------------
(* C2 *)

\* the PB rule of the claim: a strictly lower time, or the same time at a strictly
\* lower rank
PbRule(time, rank, stored_time, stored_position) ==
    /\ time # NoTime /\ stored_time # NoTime
    /\ time < stored_time \/ (time = stored_time /\ rank < stored_position)

\* the rule amended: a row with a time also improves on a record that stores no time
PbRuleOrNoStoredTime(time, rank, stored_time, stored_position) ==
    \/ PbRule(time, rank, stored_time, stored_position)
    \/ time # NoTime /\ stored_time = NoTime

\* In a reconciliation, every row whose player occurs once in the leaderboard and has
\* a record of the map is a PB exactly when rule says so: on a PB the record takes the
\* row's time, score, rank and game timestamp, is flagged, and one PB event (player,
\* map, new time, old time) is appended; otherwise the record keeps its time and flag
\* and no PB event names the player.
ClassifiedBy(rule(_, _, _, _)) ==
    \A rank \in 1..Len(all_tops_for_map') :
        LET row == all_tops_for_map'[rank]
            key == <<map_uid, row.id>>
            pbs == Appended(session_data.new_pbs, session_data'.new_pbs)
        IN  /\ row.id # NoId
            /\ Count([i \in 1..Len(all_tops_for_map') |-> all_tops_for_map'[i].id],
                     row.id) = 1
            /\ key \in DOMAIN db.records
            => LET old == db.records[key]
                   event == <<row.name, entry_data.name, row.time, old.time_ms>>
               IN  IF rule(row.time, rank, old.time_ms, old.position)
                   THEN /\ db'.records[key] =
                              [old EXCEPT !.time_ms = row.time,
                                          !.score = row.score,
                                          !.position = rank,
                                          !.game_timestamp = row.timestamp,
                                          !.script_updated_at = current_fetch_time,
                                          !.is_pb_since_last_fetch = TRUE]
                        /\ Count(pbs, event) = 1
                   ELSE /\ db'.records[key].time_ms = old.time_ms
                        /\ db'.records[key].is_pb_since_last_fetch
                              = old.is_pb_since_last_fetch
                        /\ \A i \in 1..Len(pbs) : pbs[i][1] # row.name

\* C2 as stated: a fetched row of an existing record is a PB exactly when its time is
\* strictly lower than the stored time, or equal to it at a strictly lower rank.
C2_PbExactly == [][ReconcileStep => ClassifiedBy(PbRule)]_vars

\* C2 amended: a fetched row of an existing record is a PB exactly when it carries a
\* time and the record stores no time, or its time is strictly lower than the stored
\* time, or equal to it at a strictly lower rank; the effects of a PB as stated.
C2_PbExactlyOrNoStoredTime == [][ReconcileStep => ClassifiedBy(PbRuleOrNoStoredTime)]_vars

\* a PB by rank at an equal time has been recorded, and one by a lower time
C2_Witness ==
    /\ pc = "entry"
    /\ \E i \in 1..Len(session_data.new_pbs) :
          session_data.new_pbs[i][3] = session_data.new_pbs[i][4]
    /\ \E i \in 1..Len(session_data.new_pbs) :
          /\ session_data.new_pbs[i][4] # NoTime
          /\ session_data.new_pbs[i][3] < session_data.new_pbs[i][4]

-----------------------------------------------------------------------------
(* C3 *)

\* C3: reconciling an empty leaderboard for a map with a stored WR holder appends
\* exactly one WR event, without a new holder and with the stored holder and time as
\* the old ones, clears the snapshot and sets is_new_wr_since_last_fetch.
C3_EmptyClearsWr ==
    [][/\ ReconcileStep
       /\ all_tops_for_map' = <<>>
       /\ map_uid \in DOMAIN db.maps
       /\ db.maps[map_uid].wr_player_id # NoId
       => LET old == db.maps[map_uid]
          IN  /\ session_data'.new_wrs =
                    Append(session_data.new_wrs,
                           <<entry_data.name, NoHolder, NoTime,
                             db.players[old.wr_player_id].last_known_name,
                             old.wr_time_ms>>)
              /\ db'.maps[map_uid].wr_player_id = NoId
              /\ db'.maps[map_uid].wr_time_ms = NoTime
              /\ db'.maps[map_uid].wr_game_timestamp = NoStamp
              /\ db'.maps[map_uid].is_new_wr_since_last_fetch]_vars

\* an empty leaderboard has just cleared a stored WR
C3_Witness ==
    /\ pc = "entry"
    /\ all_tops_for_map = <<>>
    /\ session_data.new_wrs # <<>>
    /\ session_data.new_wrs[Len(session_data.new_wrs)][2] = NoHolder
    /\ session_data.new_wrs[Len(session_data.new_wrs)][5] # NoTime
    /\ db.maps[map_uid].wr_player_id = NoId
    /\ db.maps[map_uid].is_new_wr_since_last_fetch

-----------------------------------------------------------------------------
(* C4 *)

\* the WR columns of a map row
Snapshot(row) ==
    [player_id |-> row.wr_player_id, time_ms |-> row.wr_time_ms,
     game_timestamp |-> row.wr_game_timestamp]

NoSnapshot == [player_id |-> NoId, time_ms |-> NoTime, game_timestamp |-> NoStamp]

\* the snapshot stored for a map, none when the map has no row
SnapshotOf(d, uid) == IF uid \in DOMAIN d.maps THEN Snapshot(d.maps[uid]) ELSE NoSnapshot

\* the rank-1 row of a leaderboard as a snapshot, none when the leaderboard is empty
Candidate(tops) ==
    IF tops = <<>> THEN NoSnapshot
    ELSE [player_id |-> tops[1].id, time_ms |-> tops[1].time,
          game_timestamp |-> tops[1].timestamp]

\* the rank-1 row carries a player id and a time
Complete(candidate) == candidate.player_id # NoId /\ candidate.time_ms # NoTime

\* the condition of the claim
WrChangeClaimed(stored, candidate, tops) ==
    \/ candidate.player_id # stored.player_id
    \/ candidate.time_ms # stored.time_ms
    \/ stored.player_id # NoId /\ tops = <<>>

\* the condition amended: holder and time count when the rank-1 row carries both; a
\* stored snapshot is also given up when the rank-1 row lacks its player id or its time
WrChangeAmended(stored, candidate, tops) ==
    \/ /\ Complete(candidate)
       /\ candidate.player_id # stored.player_id \/ candidate.time_ms # stored.time_ms
    \/ stored.player_id # NoId /\ ~Complete(candidate)

\* In a reconciliation, one WR event is appended and the snapshot overwritten (with
\* the rank-1 row, or cleared when that row is no holder with a time) if cond holds;
\* otherwise no WR event is appended and the snapshot and its flag are left alone.
WrChangesWhen(cond(_, _, _)) ==
    LET stored == SnapshotOf(db, map_uid)
        candidate == Candidate(all_tops_for_map')
        wrs == Appended(session_data.new_wrs, session_data'.new_wrs)
    IN  IF cond(stored, candidate, all_tops_for_map')
        THEN /\ Len(wrs) = 1
             /\ wrs[1][1] = entry_data.name
             /\ SnapshotOf(db', map_uid)
                   = IF Complete(candidate) THEN candidate ELSE NoSnapshot
             /\ db'.maps[map_uid].is_new_wr_since_last_fetch
             /\ db'.maps[map_uid].wr_script_recorded_at = current_fetch_time
        ELSE /\ wrs = <<>>
             /\ SnapshotOf(db', map_uid) = stored
             /\ map_uid \in DOMAIN db.maps =>
                   /\ db'.maps[map_uid].is_new_wr_since_last_fetch
                         = db.maps[map_uid].is_new_wr_since_last_fetch
                   /\ db'.maps[map_uid].wr_script_recorded_at
                         = db.maps[map_uid].wr_script_recorded_at

\* C4 as stated: a WR event is appended and the snapshot overwritten if and only if
\* the rank-1 holder differs from the stored holder, or the rank-1 time from the stored
\* time, or a snapshot is stored and the leaderboard is empty.
C4_WrChangeIff == [][ReconcileStep => WrChangesWhen(WrChangeClaimed)]_vars

\* C4 amended: a WR event is appended and the snapshot overwritten if and only if the
\* rank-1 row carries a player id and a time and differs from the snapshot in holder
\* or time, or a snapshot is stored and the leaderboard is empty or its rank-1 row
\* lacks a player id or a time (the snapshot is then cleared).
C4_WrChangeIffComplete == [][ReconcileStep => WrChangesWhen(WrChangeAmended)]_vars

\* the holder of a stored WR has just improved the WR time
C4_Witness ==
    /\ pc = "entry"
    /\ all_tops_for_map # <<>>
    /\ session_data.new_wrs # <<>>
    /\ LET event == session_data.new_wrs[Len(session_data.new_wrs)]
       IN  /\ event[2] = event[4]
           /\ event[5] # NoTime /\ event[3] # NoTime /\ event[3] < event[5]
    /\ Snapshot(db.maps[map_uid]) = Candidate(all_tops_for_map)

-----------------------------------------------------------------------------
(* C5 *)

\* the messages of one kind that the call has logged for the entry at position i
Logged(lg, msg, i) == SelectSeq(lg, LAMBDA m : m.msg = msg /\ m.entry = i)

\* C5: when the API reports playercount = N > 0 and serves exactly N rows in pages of
\* RECORDS_PER_PAGE, the fetch of the map issues exactly ceil(N / RECORDS_PER_PAGE)
\* page requests, at offsets 0, 100, 200, ..., and collects the N rows in order
\* (N = 250: three requests).
C5_PageRequests ==
    [][/\ ReconcileStep
       /\ Logged(log', "error", idx) = <<>>
       /\ map_total_playercount_api' > 0
       /\ Len(served') = map_total_playercount_api'
       => LET N == map_total_playercount_api'
              requests == Logged(log', "page", idx)
          IN  /\ Len(requests) = (N + RECORDS_PER_PAGE - 1) \div RECORDS_PER_PAGE
              /\ \A j \in 1..Len(requests) : requests[j].n = (j - 1) * RECORDS_PER_PAGE
              /\ all_tops_for_map' = served'
              /\ Len(all_tops_for_map') = N]_vars

\* a map of 250 players has been fetched in pages of 100, 100 and 50 rows
C5_Witness ==
    /\ pc = "entry" /\ idx > 1
    /\ map_total_playercount_api = MaxFullPages * RECORDS_PER_PAGE + TailRows
    /\ all_tops_for_map = FullPage \o FullPage \o TailPage
    /\ Logged(log, "error", idx - 1) = <<>>
    /\ Len(Logged(log, "page", idx - 1)) = MaxFullPages + 1
    /\ Logged(log, "finished", idx - 1) # <<>>

-----------------------------------------------------------------------------
(* C6 *)

\* C6: a page request that fails after k >= 0 pages of the map is the last page
\* request of that map's fetch, and the rows of the k pages are kept and reconciled as
\* the map's leaderboard: they are the rows collected, every one with a player id has
\* its player and a record touched in this run, the playercount stored is their number
\* and the WR snapshot is their first row; the result is committed.
C6_FailureKeepsRows ==
    /\ [](\A i, j \in 1..Len(log) :
            i < j /\ log[i].msg = "error" /\ log[j].msg = "page"
            => log[j].entry # log[i].entry)
    /\ [][/\ pc = "page"
          /\ Logged(log', "error", idx) # <<>>
          => /\ pc' = "entry" /\ idx' = idx + 1
             /\ all_tops_for_map' = served /\ served' = served
             /\ Len(Logged(log', "page", idx)) = Len(served) \div RECORDS_PER_PAGE + 1
             /\ \A i \in 1..Len(served) :
                   served[i].id # NoId
                   => /\ served[i].id \in DOMAIN db'.players
                      /\ <<map_uid, served[i].id>> \in DOMAIN db'.records
                      /\ db'.records[<<map_uid, served[i].id>>].script_updated_at
                            = current_fetch_time
             /\ served # <<>>
                   => /\ db'.maps[map_uid].last_playercount = Len(served)
                      /\ Complete(Candidate(served))
                            => SnapshotOf(db', map_uid) = Candidate(served)
             /\ committed' = db']_vars

\* a request has failed after a full page, which was reconciled
C6_Witness ==
    /\ pc = "entry" /\ idx > 1
    /\ Logged(log, "error", idx - 1) # <<>>
    /\ all_tops_for_map = FullPage
    /\ <<map_uid, "p2">> \in DOMAIN committed.records

-----------------------------------------------------------------------------
(* C7 *)

\* the positions of the entries whose URL template carries a map uid, in list order
Fetchable(entries) ==
    SelectSeq([i \in 1..Len(entries) |-> i],
              LAMBDA i : extract_map_uid_from_url(entries[i].url_template) # NoUid)

\* the positions of the entries whose reconciliation the call has completed, in order
Finished(lg) ==
    LET done == SelectSeq(lg, LAMBDA m : m.msg = "finished")
    IN  [k \in 1..Len(done) |-> done[k].entry]

\* C7: a run over a source list with a valid entry is never aborted: it returns an
\* error only for a source list without one, it ends only past the last entry, every
\* entry with a map uid has then been requested and reconciled, in list order, every
\* reconciliation is committed, and the run returns its session event log.
C7_RunNeverAborted ==
    /\ [](returned.status = "error"
             => ~source.exists \/ map_url_entries_of[source] = <<>>)
    /\ [](pc = "entry" => committed = db)
    /\ [][pc # "idle" /\ pc' = "idle"
          => /\ idx > Len(map_url_entries)
             /\ Finished(log) = Fetchable(map_url_entries)
             /\ \A k \in 1..Len(Finished(log)) :
                   Logged(log, "page", Finished(log)[k]) # <<>>
             /\ committed' = db' /\ db' = db
             /\ returned' = [status |-> "ok", data |-> session_data]]_vars

\* a run has returned its log after a failed request on its first map and the
\* reconciliation of a row of its second map
C7_Witness ==
    /\ pc = "idle" /\ returned.status = "ok"
    /\ Len(map_url_entries) = 2
    /\ Logged(log, "error", 1) # <<>>
    /\ Logged(log, "error", 2) = <<>>
    /\ Finished(log) = <<1, 2>>
    /\ returned.data.new_players_on_map # <<>>

-----------------------------------------------------------------------------
(* C8 *)

\* a line that is no valid entry: blank, a comment, or without the separator
NoEntry(line) ==
    \/ \A k \in 1..Len(line) : line[k] = " "
    \/ \E k \in 1..Len(line) : line[k] = "#" /\ \A j \in 1..(k - 1) : line[j] = " "
    \/ \A k \in 1..Len(line) : line[k] # "|"

\* C8: a call that finds the source list missing or without a valid entry returns an
\* error, requests no page, leaves every Map, Player and Record row as it was, committed
\* or not, and produces no session event.
C8_HardStop ==
    [][/\ pc = "idle"
       /\ ~source'.exists \/ \A i \in 1..Len(source'.lines) : NoEntry(source'.lines[i])
       => /\ returned' = [status |-> "error", data |-> EmptySession]
          /\ pc' = "idle"
          /\ db' = db /\ committed' = committed
          /\ session_data' = session_data
          /\ \A i \in 1..Len(log') : log'[i].msg # "page"]_vars

\* a call has stopped on a source list of lines without a valid entry, the store
\* holding flagged rows of an earlier run
C8_Witness ==
    /\ returned.status = "error"
    /\ source.exists /\ source.lines # <<>>
    /\ \E k \in DOMAIN db.records : db.records[k].is_new_player_on_map_since_last_fetch

-----------------------------------------------------------------------------
(* C9 *)

\* C9: an entry without an extractable map uid is skipped: no page is ever requested
\* for it, the step that passes it leaves the store, committed or not, and the session
\* event log as they were, and the run goes on with the next entry.
C9_EntrySkipped ==
    /\ [](\A i \in 1..Len(log) :
            log[i].msg = "page"
            => extract_map_uid_from_url(map_url_entries[log[i].entry].url_template)
                  # NoUid)
    /\ [][/\ pc = "entry" /\ idx <= Len(map_url_entries)
          /\ extract_map_uid_from_url(entry_data.url_template) = NoUid
          => /\ db' = db /\ committed' = committed
             /\ session_data' = session_data
             /\ pc' = "entry" /\ idx' = idx + 1
             /\ map_url_entries' = map_url_entries]_vars

\* an entry without a map uid has been skipped and the next entry reconciled
C9_Witness ==
    /\ pc = "entry" /\ idx = 3
    /\ Logged(log, "no_uid", 1) # <<>>
    /\ Logged(log, "page", 1) = <<>>
    /\ Finished(log) = <<2>>
    /\ all_tops_for_map # <<>>

-----------------------------------------------------------------------------
(* C10 *)

\* C10: a row without a player id is ignored whatever its rank: no Player or Record
\* row is keyed by the missing id, the holder of the stored WR is not reported gone
\* while a row with a player and a time remains, and the rows with a player id are
\* reconciled (their records exist and carry the run's timestamp).
C10_RowWithoutIdIgnored ==
    [][/\ ReconcileStep
       /\ \E i \in 1..Len(all_tops_for_map') : all_tops_for_map'[i].id = NoId
       => LET rest == SelectSeq(all_tops_for_map', LAMBDA row : row.id # NoId)
              wrs == Appended(session_data.new_wrs, session_data'.new_wrs)
          IN  /\ NoId \notin DOMAIN db'.players
              /\ \A k \in DOMAIN db'.records : k[2] # NoId
              /\ rest # <<>> /\ rest[1].time # NoTime
                    => \A i \in 1..Len(wrs) : wrs[i][2] # NoHolder
              /\ \A i \in 1..Len(rest) :
                    /\ <<map_uid, rest[i].id>> \in DOMAIN db'.records
                    /\ db'.records[<<map_uid, rest[i].id>>].script_updated_at
                          = current_fetch_time]_vars

-----------------------------------------------------------------------------
(* C11 *)

\* a run that processed the source list has ended
RunEnded == pc = "idle" /\ returned.status = "ok"

\* the maps of the source list of the run
Listed ==
    {extract_map_uid_from_url(map_url_entries[i].url_template) :
        i \in 1..Len(map_url_entries)}

\* C11: at the end of a run that processed the source list, a map is flagged
\* is_new_wr_since_last_fetch exactly when a reconciliation of this run changed its
\* stored WR holder or WR time (clearing included); no flag of an earlier run is left,
\* on listed maps or others.
C11_WrFlagIffChanged ==
    RunEnded =>
        \A uid \in DOMAIN db.maps :
            /\ db.maps[uid].is_new_wr_since_last_fetch <=> uid \in wr_changed
            /\ committed.maps[uid].is_new_wr_since_last_fetch <=> uid \in wr_changed

\* the second run has ended: it changed the WR of a map, and the map whose WR the
\* first run had set is no longer listed and no longer flagged
C11_Witness ==
    /\ RunEnded /\ current_fetch_time = 2
    /\ \E uid \in DOMAIN db.maps :
          db.maps[uid].is_new_wr_since_last_fetch /\ uid \in Listed
    /\ \E uid \in DOMAIN db.maps :
          /\ uid \notin Listed
          /\ db.maps[uid].wr_player_id # NoId
          /\ db.maps[uid].wr_script_recorded_at = 1
          /\ ~db.maps[uid].is_new_wr_since_last_fetch

-----------------------------------------------------------------------------
(* C12 *)

\* a PB event of this run's log names the map of record k and carries the record's time
PbLogged(d, k) ==
    \E i \in 1..Len(session_data.new_pbs) :
        /\ session_data.new_pbs[i][2] = d.maps[k[1]].map_display_name
        /\ session_data.new_pbs[i][3] = d.records[k].time_ms

\* the flags of the records of store d come from this run alone: a record flagged as PB
\* was improved by this run, a record flagged as new on its map was inserted by this run
FlagsOfThisRun(d) ==
    \A k \in DOMAIN d.records :
        /\ d.records[k].is_pb_since_last_fetch =>
              /\ d.records[k].script_updated_at = current_fetch_time
              /\ PbLogged(d, k)
        /\ d.records[k].is_new_player_on_map_since_last_fetch =>
              d.records[k].script_recorded_at = current_fetch_time

\* C12: at the end of a run that processed the source list, a record carries
\* is_pb_since_last_fetch only if this run applied a PB to it (the run's timestamp in
\* script_updated_at and a PB event of this run for its map and time) and
\* is_new_player_on_map_since_last_fetch only if this run inserted it (the run's
\* timestamp in script_recorded_at); every other record, on listed and unlisted maps,
\* has both flags false
C12_RecordFlagsOfThisRun ==
    RunEnded => FlagsOfThisRun(db) /\ FlagsOfThisRun(committed)

\* the second run ends with a record improved by it and flagged, while a record of an
\* unlisted map, inserted by the first run, carries no flag
C12_Witness ==
    /\ RunEnded /\ current_fetch_time = 2
    /\ \E k \in DOMAIN db.records :
          /\ k[1] \in Listed
          /\ db.records[k].is_pb_since_last_fetch
          /\ db.records[k].script_recorded_at = 1
    /\ \E k \in DOMAIN db.records :
          /\ k[1] \notin Listed
          /\ db.records[k].script_recorded_at = 1
          /\ ~db.records[k].is_pb_since_last_fetch
          /\ ~db.records[k].is_new_player_on_map_since_last_fetch

-----------------------------------------------------------------------------
(* C13 *)

\* the player ids of the rows of a leaderboard
Ids(tops) == [i \in 1..Len(tops) |-> tops[i].id]

\* the players of the leaderboard who have no record of the map before the step
Newcomers ==
    {id \in {all_tops_for_map'[i].id : i \in 1..Len(all_tops_for_map')} :
        id # NoId /\ <<map_uid, id>> \notin DOMAIN db.records}

\* the first row of player id in the leaderboard
FirstRank(tops, id) ==
    CHOOSE i \in 1..Len(tops) : tops[i].id = id /\ \A j \in 1..(i - 1) : tops[j].id # id

\* C13: a reconciliation inserts, for every player of the leaderboard without a stored
\* record of the map, exactly one record, recorded at the run's timestamp and flagged
\* is_new_player_on_map_since_last_fetch, and appends exactly one new-player-on-map
\* event (player, map, time) of the player's first row; where the player has one row,
\* the record holds the row's time, score and game timestamp, the row's rank as
\* position, script_updated_at = the run's timestamp, and no PB flag.  Nothing else
\* is inserted.
C13_NewRecordInserted ==
    [][ReconcileStep =>
          LET tops == all_tops_for_map'
              events == Appended(session_data.new_players_on_map,
                                 session_data'.new_players_on_map)
          IN  /\ DOMAIN db'.records
                    = DOMAIN db.records \cup {<<map_uid, id>> : id \in Newcomers}
              /\ Len(events) = Cardinality(Newcomers)
              /\ \A id \in Newcomers :
                    LET rank == FirstRank(tops, id)
                        row == tops[rank]
                        record == db'.records[<<map_uid, id>>]
                    IN  /\ record.script_recorded_at = current_fetch_time
                        /\ record.is_new_player_on_map_since_last_fetch
                        /\ Count(events, <<row.name, entry_data.name, row.time>>) = 1
                        /\ Count(Ids(tops), id) = 1 =>
                              record = [time_ms |-> row.time, score |-> row.score,
                                        position |-> rank,
                                        game_timestamp |-> row.timestamp,
                                        script_recorded_at |-> current_fetch_time,
                                        script_updated_at |-> current_fetch_time,
                                        is_pb_since_last_fetch |-> FALSE,
                                        is_new_player_on_map_since_last_fetch |-> TRUE]
    ]_vars

\* a record was inserted for the player of the second row of a leaderboard, beside a
\* record of an earlier run
C13_Witness ==
    /\ pc = "entry" /\ current_fetch_time = 2
    /\ Len(all_tops_for_map) = 2
    /\ DistinctIds(all_tops_for_map)
    /\ all_tops_for_map[2].id # NoId
    /\ <<map_uid, all_tops_for_map[2].id>> \in DOMAIN db.records
    /\ db.records[<<map_uid, all_tops_for_map[2].id>>].script_recorded_at = 2
    /\ db.records[<<map_uid, all_tops_for_map[2].id>>].position = 2
    /\ \E k \in DOMAIN db.records : db.records[k].script_recorded_at = 1
    /\ Len(session_data.new_players_on_map) = 1

-----------------------------------------------------------------------------
(* C14 *)

\* C14: every step leaves first_seen_by_script_at of every stored player as it was,
\* whatever else of the player it writes, and a player inserted by the step gets the
\* timestamp of the run in progress.
C14_FirstSeenWrittenOnce ==
    [][/\ \A id \in DOMAIN db.players :
             /\ id \in DOMAIN db'.players
             /\ db'.players[id].first_seen_by_script_at
                   = db.players[id].first_seen_by_script_at
       /\ \A id \in DOMAIN db'.players \ DOMAIN db.players :
             db'.players[id].first_seen_by_script_at = current_fetch_time
    ]_vars

\* a player inserted by the first run was renamed and moved to another country by the
\* second run, as the WR holder of a map
C14_Witness ==
    /\ pc = "entry" /\ current_fetch_time = 2
    /\ \E id \in DOMAIN db.players :
          /\ db.players[id].first_seen_by_script_at = 1
          /\ db.players[id].country_name = "France"
          /\ \E i \in 1..Len(session_data.player_name_changes) :
                /\ session_data.player_name_changes[i][1] = id
                /\ session_data.player_name_changes[i][3] = db.players[id].last_known_name
          /\ \E uid \in DOMAIN db.maps :
                /\ db.maps[uid].wr_player_id = id
                /\ db.maps[uid].wr_script_recorded_at = 2

-----------------------------------------------------------------------------
(* C15 *)

\* the rows of store before are rows of store after, and no record is inserted anew
Grows(before, after) ==
    /\ DOMAIN before.maps \subseteq DOMAIN after.maps
    /\ DOMAIN before.players \subseteq DOMAIN after.players
    /\ DOMAIN before.records \subseteq DOMAIN after.records
    /\ \A k \in DOMAIN before.records :
          after.records[k].script_recorded_at = before.records[k].script_recorded_at

\* C15: no step removes a map, a player or a record (map_uid, player_id) from the
\* store or from its committed copy, whether or not the map is still listed, and the
\* record of a pair that has one is never inserted a second time (it keeps its
\* script_recorded_at): a pair has at most one record.
C15_KeysOnlyGrow == [][Grows(db, db') /\ Grows(committed, committed')]_vars

\* the second run ended without map B in the source list: the map, its record and the
\* player of the first run are stored, and the record of a listed map was fetched again
C15_Witness ==
    /\ RunEnded /\ current_fetch_time = 2
    /\ \E uid \in DOMAIN db.maps :
          /\ uid \notin Listed
          /\ db.maps[uid].last_fetched_at = 1
          /\ \E k \in DOMAIN db.records : k[1] = uid /\ k[2] \in DOMAIN db.players
    /\ \E k \in DOMAIN db.records :
          /\ k[1] \in Listed
          /\ db.records[k].script_recorded_at = 1
          /\ db.records[k].script_updated_at = 2

-----------------------------------------------------------------------------
(* C16 *)

\* the step reconciles a leaderboard of the map of record k with a row of its player
Fetched(k) ==
    /\ ReconcileStep
    /\ k[1] = map_uid
    /\ \E i \in 1..Len(all_tops_for_map') : all_tops_for_map'[i].id = k[2]

\* the standing of a record: everything but its two flags
Standing(record) ==
    <<record.time_ms, record.score, record.position, record.game_timestamp,
      record.script_recorded_at, record.script_updated_at>>

\* C16: a stored record keeps its time, score, position, game timestamp,
\* script_recorded_at and script_updated_at over every step but the reconciliation of
\* a leaderboard of its map that holds a row of its player; the start of a run changes
\* its flags alone, and a reconciliation without its player changes nothing of it.
C16_StaleRecordKept ==
    [][\A k \in DOMAIN db.records :
          ~Fetched(k) =>
              /\ k \in DOMAIN db'.records
              /\ Standing(db'.records[k]) = Standing(db.records[k])
              /\ ReconcileStep => db'.records[k] = db.records[k]
    ]_vars

\* a later run reconciled a leaderboard with rows but none of a player whose record
\* dates from the first run: the record still shows the first run's standing
C16_Witness ==
    /\ pc = "entry" /\ current_fetch_time > 1
    /\ map_uid \in DOMAIN reconciled
    /\ reconciled[map_uid].run = current_fetch_time
    /\ \E i \in 1..Len(all_tops_for_map) : all_tops_for_map[i].id # NoId
    /\ \E k \in DOMAIN db.records :
          /\ k[1] = map_uid
          /\ \A i \in 1..Len(all_tops_for_map) : all_tops_for_map[i].id # k[2]
          /\ db.records[k].script_updated_at = 1
          /\ db.records[k].position = 1
          /\ ~db.records[k].is_new_player_on_map_since_last_fetch

-----------------------------------------------------------------------------
(* C17 *)

\* no two name-change events of the run's log agree on what key extracts from them
OneEventPer(key(_)) ==
    \A i, j \in 1..Len(session_data.player_name_changes) :
        key(session_data.player_name_changes[i]) = key(session_data.player_name_changes[j])
            => i = j

\* the player of a name-change event
ChangedPlayer(change) == change[1]

\* the player and the new name of a name-change event
ChangedPlayerAndName(change) == <<change[1], change[3]>>

\* C17 as stated: the log of a run never holds two name-change events of one player id.
C17_OneNameChangePerPlayer == OneEventPer(ChangedPlayer)

\* C17 amended: the log of a run never holds two name-change events of one player id
\* with the same new name, whatever the maps' leaderboards and whether the player is
\* met as WR holder or as a row; a player whose name changes back and forth within
\* the run gets one event per new name.
C17_OneNameChangePerPlayerAndName == OneEventPer(ChangedPlayerAndName)

\* a player was met under a new name, under the old one again and under the new one
\* once more within a run: the log holds one event for each of the two names
C17_Witness ==
    /\ pc = "entry" /\ idx = 3
    /\ Len(session_data.player_name_changes) = 2
    /\ session_data.player_name_changes[1][1] = session_data.player_name_changes[2][1]
    /\ session_data.player_name_changes[1][3] = "b"
    /\ session_data.player_name_changes[2][3] = "a"
    /\ \E id \in DOMAIN db.players : db.players[id].last_known_name = "b"

-----------------------------------------------------------------------------
(* C18 *)

\* the chain is City -> Region -> Country -> World: four zones, the root named "World",
\* the three below it named otherwise and apart from each other
CityRegionCountryWorld(zone) ==
    /\ Len(zone) = 4
    /\ zone[4].name = "World"
    /\ \A i \in 1..3 : zone[i].name \notin {"World", NoField} /\ zone[i].flag # NoField
    /\ \A i, j \in 1..3 : zone[i].name = zone[j].name => i = j

\* the chain is one zone without a parent, not named "World"
LoneZone(zone) == Len(zone) = 1 /\ zone[1].name # "World"

\* C18 as stated: get_actual_country_info returns the name and flag of Country for a
\* leaf City with the chain City -> Region -> Country -> World, and the zone's own
\* name and flag (the defaults where it has none) for a zone without a parent that is
\* not named "World".
C18_ResolvesToCountry ==
    country_info # <<>> =>
        /\ CityRegionCountryWorld(zone_data) =>
              country_info = <<zone_data[3].name, zone_data[3].flag>>
        /\ LoneZone(zone_data) =>
              country_info = <<get(zone_data[1].name, "Unknown"),
                               get(zone_data[1].flag, "WOR")>>

-----------------------------------------------------------------------------
(* C19 *)

\* C19: the points returned for a rank of 1 or more are at least the points of every
\* higher rank, within a tier and across the tier boundaries, and the points returned
\* for a rank of 0 or less are 0.
C19_PointsNonIncreasing ==
    points # NoPoints =>
        /\ call_rank <= 0 => points = 0
        /\ call_rank >= 1 =>
              \A r2 \in (call_rank + 1)..MaxRank : calculate_points_for_rank(r2) <= points

\* the points of rank 1000, the last rank of its tier, exceed those of rank 1001
C19_Witness ==
    /\ call_rank = 1000 /\ points = 100000
    /\ calculate_points_for_rank(1001) < points

-----------------------------------------------------------------------------
(* C20 *)

\* ceil(log10(rank)) for rank > 1: the tier t with 10^(t-1) < rank <= 10^t
TierOf(rank) == CHOOSE t \in 1..9 : Pow(10, t - 1) < rank /\ rank <= Pow(10, t)

\* value, in hundredths, is num / den rounded to the nearest hundredth
RoundedFrom(value, num, den) ==
    LET off == value * den - num
    IN  2 * off <= den /\ 2 * (0 - off) <= den

\* the literal table, in hundredths of a point
PointsTable ==
    (1 :> 4000000) @@ (9 :> 444444) @@ (10 :> 400000) @@ (11 :> 361818)
        @@ (100 :> 200000) @@ (1000 :> 100000)

\* C20: the points returned for a rank of 1..10 are 40000 / rank rounded to 2
\* decimals; for a rank of 11 or more they are
\* (4000 / 2^(tier-1)) * (10^(tier-1) / rank + 0.9) rounded to 2 decimals, with
\* tier = ceil(log10(rank)); the ranks 1, 9, 10, 11, 100 and 1000 give 40000.00,
\* 4444.44, 4000.00, 3618.18, 2000.00 and 1000.00.
C20_PointsFormula ==
    points # NoPoints /\ call_rank >= 1 =>
        /\ call_rank <= 10 => RoundedFrom(points, 4000000, call_rank)
        /\ call_rank >= 11 =>
              LET tier == TierOf(call_rank)
              IN  RoundedFrom(points,
                              400000 * Pow(10, tier - 1) + 360000 * call_rank,
                              Pow(2, tier - 1) * call_rank)
        /\ call_rank \in DOMAIN PointsTable => points = PointsTable[call_rank]

\* rank 11, the first rank of the second tier, was given 3618.18 for 3618.1818...
C20_Witness == call_rank = 11 /\ points = 361818

-----------------------------------------------------------------------------
(* C21 *)

-----------------------------------------------------------------------------
(* C22 *)

\* C22 as stated: the page loop of a map ends for any reported player count, also
\* when every page comes back full: once the first page has reported the count, one
\* of the next MaxCapPages full pages ends the loop; and with a reported count of
\* zero no page is requested once 10,000 records have been fetched.
C22_PageLoopEnds ==
    pc = "page" /\ first_fetch_done =>
        /\ \E k \in 0..MaxCapPages :
              LoopEndsAt(FullPage, current_offset + k * RECORDS_PER_PAGE,
                         map_total_playercount_api)
        /\ map_total_playercount_api = 0 => current_offset < SAFETY_CAP

-----------------------------------------------------------------------------
(* C23 *)

\* zone i of a leaf-first chain has a grandparent named "World", or a parent named
\* "World" while it is not itself named "World"
UnderWorld(zone, i) ==
    \/ i + 2 <= Len(zone) /\ zone[i + 2].name = "World"
    \/ i + 1 <= Len(zone) /\ zone[i + 1].name = "World" /\ zone[i].name # "World"

\* zone i is the root of the chain and not named "World"
OtherRoot(zone, i) == i = Len(zone) /\ zone[i].name # "World"

\* the name and flag of zone i, what it lacks taken from the leaf or the defaults
NameAndFlag(zone, i) ==
    <<get(zone[i].name, get(zone[1].name, "Unknown")),
      get(zone[i].flag, get(zone[1].flag, "WOR"))>>

\* C23 as stated: on a chain of two or more zones the resolver returns the name and
\* flag of the first zone, walking from the root to the leaf, whose grandparent is
\* named "World" or whose parent is named "World" while it is not; the leaf's own
\* only if no zone of the chain is such.
C23_FirstFromRoot ==
    country_info # <<>> /\ Len(zone_data) > 1 =>
        LET hits == {i \in 1..Len(zone_data) : UnderWorld(zone_data, i)}
        IN  IF hits = {} THEN country_info = NameAndFlag(zone_data, 1)
            ELSE \E i \in hits :
                    /\ \A j \in hits : j <= i
                    /\ country_info = NameAndFlag(zone_data, i)

\* C23 amended: on a chain of two or more zones the resolver returns the name and
\* flag of the first zone, walking from the leaf to the root, whose grandparent is
\* named "World", or whose parent is named "World" while it is not, or which is the
\* root and not named "World"; the leaf's own only if no zone of the chain is such.
C23_FirstFromLeaf ==
    country_info # <<>> /\ Len(zone_data) > 1 =>
        LET hits == {i \in 1..Len(zone_data) :
                        UnderWorld(zone_data, i) \/ OtherRoot(zone_data, i)}
        IN  IF hits = {} THEN country_info = NameAndFlag(zone_data, 1)
            ELSE \E i \in hits :
                    /\ \A j \in hits : i <= j
                    /\ country_info = NameAndFlag(zone_data, i)

\* Bavaria -> Germany -> Europe -> World was resolved to Germany, the zone nearest to
\* the leaf of the two under "World"
C23_Witness ==
    /\ zone_data = <<ZoneBavaria, ZoneGermany, ZoneEurope, ZoneWorld>>
    /\ country_info = <<"Germany", "GER">>

-----------------------------------------------------------------------------
(* C24 *)

\* the chain follows the depth convention: its root is named "World", a Continent and
\* a Country lie below the root, any further zones below the Country, and every zone
\* but the root has a flag and a name other than "World"
DepthConvention(zone) ==
    /\ Len(zone) >= 3
    /\ zone[Len(zone)].name = "World"
    /\ \A i \in 1..(Len(zone) - 1) :
          zone[i].name \notin {"World", NoField} /\ zone[i].flag # NoField

\* C24: for a chain World -> Continent -> Country followed by any number of deeper
\* zones, the resolver returns the name and flag of the Country, the third zone from
\* the root, whatever the depth of the leaf.
C24_CountryAtAnyDepth ==
    country_info # <<>> /\ DepthConvention(zone_data) =>
        country_info = <<zone_data[Len(zone_data) - 2].name,
                         zone_data[Len(zone_data) - 2].flag>>

\* a city two levels below its country was resolved to the country
C24_Witness ==
    /\ zone_data = <<ZoneMunich, ZoneBavaria, ZoneGermany, ZoneEurope, ZoneWorld>>
    /\ country_info = <<"Germany", "GER">>

-----------------------------------------------------------------------------
(* C25 *)

\* C25: between any two page requests that a run has logged, of one map or of two,
\* the run has paused: after a page that does not end the loop, after a map whose
\* loop ended by a short or empty page or by a failed request, and before and after
\* entries that are skipped.
C25_PauseBetweenRequests ==
    \A i, j \in 1..Len(log) :
        i < j /\ log[i].msg = "page" /\ log[j].msg = "page" =>
            \E k \in (i + 1)..(j - 1) : log[k].msg = "sleep"

\* a run requested two pages of its first map, the second request failed, and it
\* requested a page of its second map
C25_Witness ==
    /\ Len(Logged(log, "page", 1)) = 2
    /\ Len(Logged(log, "error", 1)) = 1
    /\ Len(Logged(log, "page", 2)) = 1

-----------------------------------------------------------------------------
(* C26 *)

\* the parameter "offset=<offset>" of a page request
PageOffsetParam(offset) == OffsetKey \o Str(offset)

\* the number of places of params that hold param
Times(params, param) == Cardinality({i \in 1..Len(params) : params[i] = param})

\* C26: the URL of every page request is the path of the template followed by one
\* well-formed query string, '?' before its first parameter and '&' between the
\* parameters, that holds exactly one offset parameter, whose value is the page's
\* offset, exactly one length=100, and every other parameter of the template, for
\* templates with and without other parameters and with offset and length parameters
\* at any position.
C26_WellFormedPageUrl ==
    paginated_api_url # <<>> =>
        \E params \in SeqsUpTo({ParamOffset, ParamLength, ParamOther}, MaxParams) :
            /\ base_api_url_template = UrlA \o Query(params)
            /\ \E sent \in SeqsUpTo({PageOffsetParam(page_offset), ParamLength, ParamOther},
                                    MaxParams + 2) :
                  /\ paginated_api_url = UrlA \o Query(sent)
                  /\ Times(sent, PageOffsetParam(page_offset)) = 1
                  /\ Times(sent, ParamLength) = 1
                  /\ Times(sent, ParamOther) = Times(params, ParamOther)

\* the URL of a page was built from a template whose first parameter is an offset
\* and whose second is another parameter
C26_Failing ==
    /\ base_api_url_template = UrlA \o Query(<<ParamOffset, ParamOther>>)
    /\ page_offset = 0
    /\ paginated_api_url = UrlA \o <<"&">> \o ParamOther \o <<"?">> \o PageOffsetParam(0)
                               \o <<"&">> \o ParamLength

-----------------------------------------------------------------------------
(* C27 *)

\* the place of the player in the read order
ReadAt(player_id) == CHOOSE i \in 1..Len(player_rows) : player_rows[i] = player_id

\* the points of the position of the player's record on the map, 0 without a record
PointsOn(uid, player_id) ==
    IF <<uid, player_id>> \in DOMAIN committed.records
    THEN calculate_points_for_rank(committed.records[<<uid, player_id>>].position)
    ELSE 0

\* the points of the player over the maps uids
RECURSIVE PointsOver(_, _)
PointsOver(uids, player_id) ==
    IF uids = {} THEN 0
    ELSE LET uid == CHOOSE u \in uids : TRUE
         IN  PointsOn(uid, player_id) + PointsOver(uids \ {uid}, player_id)

\* a record that the last run did not touch
Stale(key) == committed.records[key].script_updated_at < current_fetch_time

\* C27: the global ranking lists every stored player once, with the sum of the points
\* of the positions of all stored records of the player as the score (records that
\* the last run left untouched included, 0 without a record) and with the ranks 1..N
\* in order; the scores do not increase with the rank, and players of the same score
\* stand in the order in which they were read from the store.
C27_GlobalRanking ==
    refreshes > 0 =>
        LET lb == overall_lb_sorted_players_with_rank
        IN  /\ Len(lb) = Cardinality(DOMAIN committed.players)
            /\ {lb[i].id : i \in 1..Len(lb)} = DOMAIN committed.players
            /\ \A i \in 1..Len(lb) :
                  /\ lb[i].global_rank = i
                  /\ lb[i].score =
                        PointsOver({k[1] : k \in DOMAIN committed.records}, lb[i].id)
            /\ \A i, j \in 1..Len(lb) :
                  i < j => /\ lb[i].score >= lb[j].score
                           /\ lb[i].score = lb[j].score =>
                                 ReadAt(lb[i].id) < ReadAt(lb[j].id)

\* three players were ranked, two of them with the same score and read in the order
\* opposite to that of their ids, and a record that the last run left untouched counts
\* in the score of the third
C27_Witness ==
    /\ refreshes > 0
    /\ Len(overall_lb_sorted_players_with_rank) = 3
    /\ \E i \in 1..2 :
          /\ overall_lb_sorted_players_with_rank[i].score =
                overall_lb_sorted_players_with_rank[i + 1].score
          /\ overall_lb_sorted_players_with_rank[i].id = "p2"
          /\ overall_lb_sorted_players_with_rank[i + 1].id = "p1"
    /\ \E key \in DOMAIN committed.records :
          /\ Stale(key)
          /\ key[2] = "p3"
          /\ \E i \in 1..3 :
                /\ overall_lb_sorted_players_with_rank[i].id = "p3"
                /\ overall_lb_sorted_players_with_rank[i].score > 0

-----------------------------------------------------------------------------
(* C28 *)

\* the records of d that hold a time keep one in e, and none holds a higher one
TimesNotRaised(d, e) ==
    \A key \in DOMAIN d.records :
        d.records[key].time_ms # NoTime =>
            /\ key \in DOMAIN e.records
            /\ e.records[key].time_ms # NoTime
            /\ e.records[key].time_ms <= d.records[key].time_ms

\* C28: no step of any run raises or removes the time of a stored record, in the
\* working store and in the committed one: a time is replaced by a lower one or
\* written again, and a slower time that the API reports later is not stored.
C28_TimeNeverIncreases ==
    [][TimesNotRaised(db, db') /\ TimesNotRaised(committed, committed')]_vars

\* the third run fetched the slower time 2 for a record that holds the time 1 since
\* the first run: the record keeps the time 1
C28_Witness ==
    /\ pc = "entry" /\ current_fetch_time = 3
    /\ all_tops_for_map = <<RowA2>>
    /\ <<map_uid, "p1">> \in DOMAIN committed.records
    /\ committed.records[<<map_uid, "p1">>].time_ms = 1
    /\ committed.records[<<map_uid, "p1">>].script_recorded_at = 1
    /\ committed.records[<<map_uid, "p1">>].script_updated_at = 3

-----------------------------------------------------------------------------
(* C29 *)

\* the step in which the first page request of a map fails
FirstPageFails ==
    /\ pc = "page" /\ ~first_fetch_done
    /\ Len(log') >= Len(log) + 2
    /\ log'[Len(log) + 1] = Msg("page", idx, 0)
    /\ log'[Len(log) + 2].msg = "error"

\* the columns of the map row that the first page writes
Described(row) ==
    <<row.map_display_name, row.api_url, row.fetch_order, row.last_fetched_at,
      row.last_playercount>>

\* C29: when the first page request of a map fails, the map is reconciled as an empty
\* leaderboard: no map row is added, the name, URL, fetch order, last-fetched time and
\* player count of the map's row are not written, and no record and no player
\* changes; a stored WR snapshot of the map is cleared with the flag
\* is_new_wr_since_last_fetch set and one WR-change event without a new holder
\* appended, and without a stored WR snapshot the row stays as it is and no event is
\* appended; the result is committed.
C29_FirstPageFailure ==
    [][FirstPageFails =>
        /\ db'.records = db.records
        /\ db'.players = db.players
        /\ DOMAIN db'.maps = DOMAIN db.maps
        /\ committed' = db'
        /\ \A uid \in DOMAIN db.maps : uid # map_uid => db'.maps[uid] = db.maps[uid]
        /\ map_uid \notin DOMAIN db.maps => session_data' = session_data
        /\ map_uid \in DOMAIN db.maps =>
              /\ Described(db'.maps[map_uid]) = Described(db.maps[map_uid])
              /\ IF db.maps[map_uid].wr_player_id # NoId
                 THEN /\ db'.maps[map_uid].wr_player_id = NoId
                      /\ db'.maps[map_uid].wr_time_ms = NoTime
                      /\ db'.maps[map_uid].wr_game_timestamp = NoStamp
                      /\ db'.maps[map_uid].is_new_wr_since_last_fetch
                      /\ session_data' =
                            [session_data EXCEPT !.new_wrs =
                                Append(@, <<entry_data.name, NoHolder, NoTime,
                                            StoredWr(db, map_uid).name,
                                            db.maps[map_uid].wr_time_ms>>)]
                 ELSE /\ db'.maps[map_uid] = db.maps[map_uid]
                      /\ session_data' = session_data
    ]_vars

\* the first page request of the second run failed for a map that the first run stored
\* with one player and a WR: the row keeps the fetch time and the player count of the
\* first run and the record stays, the WR snapshot is cleared and its event logged
C29_Witness ==
    /\ pc = "entry" /\ current_fetch_time = 2
    /\ log = <<Msg("page", 1, 0), Msg("error", 1, 0), Msg("finished", 1, 0),
               Msg("sleep", 1, 0)>>
    /\ map_uid \in DOMAIN committed.maps
    /\ committed.maps[map_uid].last_fetched_at = 1
    /\ committed.maps[map_uid].last_playercount = 1
    /\ committed.maps[map_uid].wr_player_id = NoId
    /\ committed.maps[map_uid].is_new_wr_since_last_fetch
    /\ Len(session_data.new_wrs) = 1
    /\ session_data.new_wrs[1][2] = NoHolder
    /\ session_data.new_wrs[1][5] = 1
    /\ <<map_uid, "p1">> \in DOMAIN committed.records

=============================================================================
